---- MODULE Spec2Model ----
(***************************************************************************)
(* State-machine model of the collision engine: the Collider base class,   *)
(* the shape colliders and CollisionSystem (registry, per-tick sweep,      *)
(* enter/stay/exit bookkeeping, positional resolution).                    *)
(*                                                                         *)
(* Lengths and coordinates are fixed-point integers, one model unit being  *)
(* 1/20 of a world unit (radius 1.0 is 20, 0.5 is 10, 0.3 is 6).           *)
(* Collider ids are strings, modelled as sequences of character codes so   *)
(* that the code's string comparison and concatenation are computed.       *)
(***************************************************************************)
EXTENDS Integers, Sequences, FiniteSets, TLC

VARIABLES
    cfg,               \* slot -> the fields a collider object gets at construction
    enabled,           \* slot -> Collider.enabled
    parentPos,         \* slot -> parent.position of the owner transform
    worldPosition,     \* slot -> Collider.worldPosition
    activeCollisions,  \* slot -> Collider.activeCollisions (insertion-ordered ids)
    colliders,         \* CollisionSystem.colliders: slots in Map insertion order
    log,               \* what the last operation did: callbacks fired, corrections applied
    lastOp,            \* the last operation called and what it returned
    open,              \* history: <<x, y>> such that x got onCollisionEnter(y) and no onCollisionExit(y) since
    prevHit,           \* history: pairs {x, y} hit in the latest tick, both registered ever since
    live,              \* history: objects passed to a successful addCollider, their id not removed since
    entered            \* history: as open, restricted to the time since x was last registered

vars == <<cfg, enabled, parentPos, worldPosition, activeCollisions, colliders,
          log, lastOp, open, prevHit, live, entered>>

-----------------------------------------------------------------------------
(* Bounds of the model *)

\* the owners are placed on the x axis at 0, 1.5, .., 1.5 * MaxPos world units
MaxPos == 1

\* two shapes tested as a pair are 0, 0.5, .., 0.5 * MaxOffset world units
\* apart along x and along y
MaxOffset == 6

\* rays are cast from MaxRay world units above and beside the origin
MaxRay == 5

-----------------------------------------------------------------------------
(* THREE.Vector3 arithmetic on integer triples *)

Zero3 == <<0, 0, 0>>

AddV(p, q) == <<p[1] + q[1], p[2] + q[2], p[3] + q[3]>>

SubV(p, q) == <<p[1] - q[1], p[2] - q[2], p[3] - q[3]>>

NegV(p) == <<0 - p[1], 0 - p[2], 0 - p[3]>>

LengthSq(p) == p[1] * p[1] + p[2] * p[2] + p[3] * p[3]

Abs(x) == IF x < 0 THEN 0 - x ELSE x

Min2(x, y) == IF x < y THEN x ELSE y

Max2(x, y) == IF x > y THEN x ELSE y

RECURSIVE SqrtIter(_, _, _)
SqrtIter(n, lo, hi) ==
    IF lo = hi THEN lo
    ELSE LET mid == (lo + hi + 1) \div 2 IN
         IF mid * mid <= n THEN SqrtIter(n, mid, hi) ELSE SqrtIter(n, lo, mid - 1)

\* floor of the square root; exact on the perfect squares
ISqrt(n) == SqrtIter(n, 0, n)

Length(p) == ISqrt(LengthSq(p))

DistanceTo(p, q) == Length(SubV(p, q))

\* x / d for an exact quotient (d > 0)
Quot(x, d) == IF x >= 0 THEN x \div d ELSE 0 - ((0 - x) \div d)

Divides(d, x) == Abs(x) % d = 0

\* A direction is the pair of a vector and the length it is divided by:
\* normalize() divides by (length() || 1), so the zero vector stays zero.
NormalizeBy(p, len) ==
    IF Divides(len, p[1]) /\ Divides(len, p[2]) /\ Divides(len, p[3])
    THEN [v |-> <<Quot(p[1], len), Quot(p[2], len), Quot(p[3], len)>>, len |-> 1]
    ELSE [v |-> p, len |-> len]

Normalize(p) == NormalizeBy(p, Max2(1, Length(p)))

NegDir(d) == [d EXCEPT !.v = NegV(d.v)]

-----------------------------------------------------------------------------
(* Collider.js: type tags, layers, the base-class constructor *)

Undefined == "undefined"

\* the ColliderType object: it has no CYLINDER key
ColliderType == [SPHERE |-> "sphere", BOX |-> "box", CAPSULE |-> "capsule"]

\* a property read ColliderType.<name>: undefined for a missing key
TypeTag(name) == IF name \in DOMAIN ColliderType THEN ColliderType[name] ELSE Undefined

LayerNONE == 0
LayerPLAYER == 1
LayerREMOTE_PLAYER == 2
LayerNPC == 4
LayerENVIRONMENT == 8
LayerGROUND == 16
LayerTRIGGER == 32
\* 0xffffffff, as the 32-bit two's-complement operand that & makes of it
LayerALL == -1

\* x & y on the low n bits of two's-complement operands, bit n being the sign
RECURSIVE BitAndN(_, _, _)
BitAndN(x, y, n) ==
    IF x = 0 \/ y = 0 THEN 0
    ELSE IF x = -1 THEN y
    ELSE IF y = -1 THEN x
    ELSE IF n = 1 THEN 0 - (x % 2) * (y % 2)
    ELSE (x % 2) * (y % 2) + 2 * BitAndN(x \div 2, y \div 2, n - 1)

\* x & y: both operands converted to 32-bit integers
BitAnd(x, y) == BitAndN(x, y, 32)

\* options.<f> || d for a numeric option: absent and 0 both give the default
OptNum(options, f, d) ==
    IF f \in DOMAIN options THEN (IF options[f] = 0 THEN d ELSE options[f]) ELSE d

\* options.<f> || false
OptBool(options, f) == IF f \in DOMAIN options THEN options[f] ELSE FALSE

\* options.<f> || d for an object-valued option
OptObj(options, f, d) == IF f \in DOMAIN options THEN options[f] ELSE d

\* new Collider(options): the fields every collider carries.
\* hasParent stands for options.parent || null; the callbacks are always given.
Collider(options) ==
    [id               |-> options.id,
     type             |-> IF OptObj(options, "type", Undefined) = Undefined
                          THEN ColliderType.SPHERE ELSE options.type,
     layer            |-> OptNum(options, "layer", LayerENVIRONMENT),
     collidesWithMask |-> OptNum(options, "collidesWithMask", LayerALL),
     isTrigger        |-> OptBool(options, "isTrigger"),
     isStatic         |-> OptBool(options, "isStatic"),
     hasParent        |-> OptBool(options, "parent"),
     offset           |-> OptObj(options, "offset", Zero3)]

\* r1 @@ r2 restricted to records: the fields of r1, then those of r2 not in r1
Extend(r1, r2) ==
    [f \in DOMAIN r1 \cup DOMAIN r2 |-> IF f \in DOMAIN r1 THEN r1[f] ELSE r2[f]]

\* new SphereCollider(options): radius defaults to 0.5
SphereCollider(options) ==
    Extend([kind |-> "SphereCollider", radius |-> OptNum(options, "radius", 10)],
           Collider(Extend([type |-> TypeTag("SPHERE")], options)))

\* new BoxCollider(options): size defaults to (1, 1, 1)
BoxCollider(options) ==
    Extend([kind |-> "BoxCollider", size |-> OptObj(options, "size", <<20, 20, 20>>)],
           Collider(Extend([type |-> TypeTag("BOX")], options)))

\* new CapsuleCollider(options): radius defaults to 0.3, height to 1.8
CapsuleCollider(options) ==
    Extend([kind |-> "CapsuleCollider", radius |-> OptNum(options, "radius", 6),
            height |-> OptNum(options, "height", 36)],
           Collider(Extend([type |-> TypeTag("CAPSULE")], options)))

\* new CylinderCollider(options): the type passed up is ColliderType.CYLINDER
CylinderCollider(options) ==
    Extend([kind |-> "CylinderCollider", radius |-> OptNum(options, "radius", 6),
            height |-> OptNum(options, "height", 36)],
           Collider(Extend([type |-> TypeTag("CYLINDER")], options)))

\* canCollideWith(other) without the test of the enabled flags
CanCollideWithIgnoresEnabled(c, en, a, b) ==
    IF a = b THEN FALSE
    ELSE /\ BitAnd(c[a].collidesWithMask, c[b].layer) # 0
         /\ BitAnd(c[b].collidesWithMask, c[a].layer) # 0

\* canCollideWith(other), on the slots a and b of the pool
CanCollideWith(c, en, a, b) ==
    IF ~en[a] \/ ~en[b] THEN FALSE
    ELSE IF a = b THEN FALSE
    ELSE LET thisCanHitOther == BitAnd(c[a].collidesWithMask, c[b].layer) # 0
             otherCanHitThis == BitAnd(c[b].collidesWithMask, c[a].layer) # 0
         IN thisCanHitOther /\ otherCanHitThis

-----------------------------------------------------------------------------
(* Ids: strings as sequences of character codes *)

\* s < t on strings: by code unit, a proper prefix being smaller
RECURSIVE IdLess(_, _)
IdLess(s, t) ==
    IF t = <<>> THEN FALSE
    ELSE IF s = <<>> THEN TRUE
    ELSE IF Head(s) # Head(t) THEN Head(s) < Head(t)
    ELSE IdLess(Tail(s), Tail(t))

\* a.id < b.id ? `${a.id}:${b.id}` : `${b.id}:${a.id}`   (58 is ':')
PairKey(aid, bid) ==
    IF IdLess(aid, bid) THEN aid \o <<58>> \o bid ELSE bid \o <<58>> \o aid

-----------------------------------------------------------------------------
(* Narrow phase: the shape classes' intersection tests and responses.      *)
(* c is the construction-time fields per slot, wp the world positions.     *)

\* Math.max(lo, Math.min(x, hi))
Clamp(x, lo, hi) == Max2(lo, Min2(x, hi))

\* other.radius || 0
RadiusOr0(r) == IF "radius" \in DOMAIN r THEN r.radius ELSE 0

\* direction.clone().multiplyScalar(k) on a direction (v / len)
MulDir(d, k) == <<Quot(d.v[1] * k, d.len), Quot(d.v[2] * k, d.len), Quot(d.v[3] * k, d.len)>>

\* whether a length is computed without rounding
ExactLength(p) == Length(p) * Length(p) = LengthSq(p)

\* ---- SphereCollider

\* intersectsSphere with <= in place of <
SphereIntersectsSphereInclusive(c, wp, this, other) ==
    LengthSq(SubV(wp[this], wp[other]))
        <= (c[this].radius + c[other].radius) * (c[this].radius + c[other].radius)

SphereIntersectsSphere(c, wp, this, other) ==
    LET distance == DistanceTo(wp[this], wp[other])
        combinedRadius == c[this].radius + c[other].radius
    IN distance < combinedRadius

\* { direction, overlap: Math.max(0, reach - distance), normal: direction.clone() }
\* for the separation delta = (a point of this) - (a point of other), whose
\* length is the distance; exact tells whether the values have no rounding
SeparationResponse(delta, direction, reach, exact) ==
    [direction |-> direction, overlap |-> Max2(0, reach - Length(delta)),
     normal |-> direction, exact |-> exact /\ ExactLength(delta)]

SphereGetCollisionResponse(c, wp, this, other) ==
    SeparationResponse(SubV(wp[this], wp[other]), Normalize(SubV(wp[this], wp[other])),
                       c[this].radius + c[other].radius, TRUE)

\* ---- BoxCollider

\* updateBounds(): min and max of the AABB (size * 0.5 on each side)
BoxHalfSize(c, b) == <<c[b].size[1] \div 2, c[b].size[2] \div 2, c[b].size[3] \div 2>>

BoxMin(c, wp, b) == SubV(wp[b], BoxHalfSize(c, b))

BoxMax(c, wp, b) == AddV(wp[b], BoxHalfSize(c, b))

BoxIntersectsBox(c, wp, this, other) ==
    /\ BoxMin(c, wp, this)[1] <= BoxMax(c, wp, other)[1]
    /\ BoxMax(c, wp, this)[1] >= BoxMin(c, wp, other)[1]
    /\ BoxMin(c, wp, this)[2] <= BoxMax(c, wp, other)[2]
    /\ BoxMax(c, wp, this)[2] >= BoxMin(c, wp, other)[2]
    /\ BoxMin(c, wp, this)[3] <= BoxMax(c, wp, other)[3]
    /\ BoxMax(c, wp, this)[3] >= BoxMin(c, wp, other)[3]

\* the point of the AABB closest to p
BoxClosest(c, wp, this, p) ==
    <<Clamp(p[1], BoxMin(c, wp, this)[1], BoxMax(c, wp, this)[1]),
      Clamp(p[2], BoxMin(c, wp, this)[2], BoxMax(c, wp, this)[2]),
      Clamp(p[3], BoxMin(c, wp, this)[3], BoxMax(c, wp, this)[3])>>

\* intersectsSphere(sphereCollider): the argument is read through its
\* worldPosition and radius only (the system also passes a capsule's)
BoxIntersectsSphere(c, wp, this, spherePos, sphereRadius) ==
    DistanceTo(BoxClosest(c, wp, this, spherePos), spherePos) < sphereRadius

\* the response for a sphere whose closest point of the box is closest
BoxResponseAt(closest, spherePos, sphereRadius) ==
    SeparationResponse(SubV(spherePos, closest), Normalize(SubV(spherePos, closest)),
                       sphereRadius, TRUE)

\* getCollisionResponseForSphere measuring from the centre of the box
\* instead of the closest point of its bounds
BoxResponseFromCentre(c, wp, this, sphere) ==
    BoxResponseAt(wp[this], wp[sphere], c[sphere].radius)

BoxGetCollisionResponseForSphere(c, wp, this, sphere) ==
    BoxResponseAt(BoxClosest(c, wp, this, wp[sphere]), wp[sphere], c[sphere].radius)

\* ---- CapsuleCollider

\* updateCapsulePoints(): the ends of the central segment
CapsuleHalfHeight(c, k) == Quot(c[k].height - c[k].radius * 2, 2)

CapsulePointA(c, wp, k) == <<wp[k][1], wp[k][2] - CapsuleHalfHeight(c, k), wp[k][3]>>

CapsulePointB(c, wp, k) == <<wp[k][1], wp[k][2] + CapsuleHalfHeight(c, k), wp[k][3]>>

Dot(p, q) == p[1] * q[1] + p[2] * q[2] + p[3] * q[3]

\* Math.max(0, Math.min(1, n / d)) as a fraction, for d > 0
Clamp01(n, d) == IF n <= 0 THEN <<0, 1>> ELSE IF n >= d THEN <<1, 1>> ELSE <<n, d>>

\* copy(start).addScaledVector(seg, t) for the fraction t
AddScaled(start, seg, t) ==
    <<start[1] + Quot(seg[1] * t[1], t[2]),
      start[2] + Quot(seg[2] * t[1], t[2]),
      start[3] + Quot(seg[3] * t[1], t[2])>>

\* closestPointOnSegment(point, segStart, segEnd) for seg = segEnd - segStart;
\* a segment of length 0 divides 0 by 0 and every coordinate of the result is NaN
ClosestOnSeg(point, segStart, seg) ==
    IF LengthSq(seg) = 0 THEN [nan |-> TRUE, p |-> segStart]
    ELSE [nan |-> FALSE,
          p |-> AddScaled(segStart, seg,
                          Clamp01(Dot(SubV(point, segStart), seg), LengthSq(seg)))]

ClosestPointOnSegment(point, segStart, segEnd) ==
    ClosestOnSeg(point, segStart, SubV(segEnd, segStart))

\* s = clamp((b * f - c * e) / denom) when denom !== 0, else 0
SegS0(n, denom) ==
    IF denom > 0 THEN Clamp01(n, denom)
    ELSE IF denom < 0 THEN Clamp01(0 - n, 0 - denom)
    ELSE <<0, 1>>

\* the pair (s, t) of closestPointsOnSegments from its dot products; s0 is the
\* first value of s and t = (b * s + f) / e is the fraction tn / td. The 0.0001
\* guards are below one squared model unit, so they test for 0.
SegParams(a, e, f, cc, b, s0, tn, td) ==
    IF a <= 0 /\ e <= 0 THEN <<(<<0, 1>>), (<<0, 1>>)>>
    ELSE IF a <= 0 THEN <<(<<0, 1>>), Clamp01(f, e)>>
    ELSE IF e <= 0 THEN <<Clamp01(0 - cc, a), (<<0, 1>>)>>
    ELSE IF tn < 0 THEN <<Clamp01(0 - cc, a), (<<0, 1>>)>>
    ELSE IF tn > td THEN <<Clamp01(b - cc, a), (<<1, 1>>)>>
    ELSE <<s0, (<<tn, td>>)>>

SegParamsFrom(a, e, f, cc, b, s0) ==
    SegParams(a, e, f, cc, b, s0, b * s0[1] + f * s0[2], e * s0[2])

SegDots(a, e, f, cc, b) ==
    SegParamsFrom(a, e, f, cc, b, SegS0(b * f - cc * e, a * e - b * b))

SegPoints(a1, b1, d1, d2, st) ==
    [closestA |-> AddScaled(a1, d1, st[1]), closestB |-> AddScaled(b1, d2, st[2])]

SegClosest(a1, b1, d1, d2, r) ==
    SegPoints(a1, b1, d1, d2,
              SegDots(Dot(d1, d1), Dot(d2, d2), Dot(d2, r), Dot(d1, r), Dot(d1, d2)))

\* closestPointsOnSegments(a1, a2, b1, b2)
ClosestPointsOnSegments(a1, a2, b1, b2) ==
    SegClosest(a1, b1, SubV(a2, a1), SubV(b2, b1), SubV(a1, b1))

\* the closest points of the central segments of two capsules
CapsuleClosest(c, wp, this, other) ==
    ClosestPointsOnSegments(CapsulePointA(c, wp, this), CapsulePointB(c, wp, this),
                            CapsulePointA(c, wp, other), CapsulePointB(c, wp, other))

\* the point of this capsule's central segment closest to other's centre
CapsuleClosestTo(c, wp, this, other) ==
    ClosestPointOnSegment(wp[other], CapsulePointA(c, wp, this), CapsulePointB(c, wp, this))

PointsCloser(pts, combinedRadius) ==
    DistanceTo(pts.closestA, pts.closestB) < combinedRadius

CapsuleIntersectsCapsule(c, wp, this, other) ==
    PointsCloser(CapsuleClosest(c, wp, this, other), c[this].radius + c[other].radius)

PointCloser(closest, spherePos, combinedRadius) ==
    IF closest.nan THEN FALSE
    ELSE DistanceTo(closest.p, spherePos) < combinedRadius

CapsuleIntersectsSphere(c, wp, this, other) ==
    PointCloser(CapsuleClosestTo(c, wp, this, other), wp[other],
                c[this].radius + c[other].radius)

CapsuleResponseToCapsule(pts, combinedRadius) ==
    SeparationResponse(SubV(pts.closestA, pts.closestB),
                       Normalize(SubV(pts.closestA, pts.closestB)), combinedRadius, TRUE)

\* a NaN response is marked inexact: it has no fixed-point value
CapsuleResponseToPoint(closest, otherPos, combinedRadius) ==
    SeparationResponse(SubV(closest.p, otherPos), Normalize(SubV(closest.p, otherPos)),
                       combinedRadius, ~closest.nan)

CapsuleGetCollisionResponse(c, wp, this, other) ==
    IF c[other].type = ColliderType.CAPSULE
    THEN CapsuleResponseToCapsule(CapsuleClosest(c, wp, this, other),
                                  c[this].radius + RadiusOr0(c[other]))
    ELSE CapsuleResponseToPoint(CapsuleClosestTo(c, wp, this, other), wp[other],
                                c[this].radius + RadiusOr0(c[other]))

\* ---- CylinderCollider

\* the AABB set by the overridden updateWorldPosition()
CylinderMin(c, wp, k) ==
    <<wp[k][1] - c[k].radius, wp[k][2] - Quot(c[k].height, 2), wp[k][3] - c[k].radius>>

CylinderMax(c, wp, k) ==
    <<wp[k][1] + c[k].radius, wp[k][2] + Quot(c[k].height, 2), wp[k][3] + c[k].radius>>

CylinderIntersectsSphere(c, wp, this, other) ==
    LET closestY == Clamp(wp[other][2], CylinderMin(c, wp, this)[2], CylinderMax(c, wp, this)[2])
        dx == wp[other][1] - wp[this][1]
        dz == wp[other][3] - wp[this][3]
        distSqHorizontal == dx * dx + dz * dz
        reach == c[this].radius + c[other].radius
        closestOnAxis == <<wp[this][1], closestY, wp[this][3]>>
        toSphere == <<dx, 0, dz>>
        closestOnSurface ==
            IF LengthSq(toSphere) > 0
            THEN AddV(closestOnAxis, MulDir(Normalize(toSphere), c[this].radius))
            ELSE closestOnAxis
    IN IF distSqHorizontal > reach * reach THEN FALSE
       ELSE DistanceTo(closestOnSurface, wp[other]) < c[other].radius

CylinderIntersectsBox(c, wp, this, box) ==
    LET cmin == CylinderMin(c, wp, this)
        cmax == CylinderMax(c, wp, this)
        bmin == BoxMin(c, wp, box)
        bmax == BoxMax(c, wp, box)
        closestX == Clamp(wp[this][1], bmin[1], bmax[1])
        closestZ == Clamp(wp[this][3], bmin[3], bmax[3])
        dx == closestX - wp[this][1]
        dz == closestZ - wp[this][3]
    IN IF \/ cmax[1] < bmin[1] \/ cmin[1] > bmax[1]
          \/ cmax[2] < bmin[2] \/ cmin[2] > bmax[2]
          \/ cmax[3] < bmin[3] \/ cmin[3] > bmax[3]
       THEN FALSE
       ELSE (dx * dx + dz * dz) < (c[this].radius * c[this].radius)

-----------------------------------------------------------------------------
(* THREE.Ray as raycast() uses it, for a ray whose normalized direction d   *)
(* is a unit vector along a coordinate axis. A result is a record: hit      *)
(* tells whether a point was returned (null otherwise), t is its parameter  *)
(* along the ray, exact whether the value has no rounding.                  *)

RayMiss == [hit |-> FALSE, t |-> 0, exact |-> TRUE]

\* the branch of intersectSphere on t0 = tca - thc and t1 = tca + thc
RayThroughSphere(tca, thc, exact) ==
    IF tca + thc < 0 THEN RayMiss
    ELSE IF tca - thc < 0 THEN [hit |-> TRUE, t |-> tca + thc, exact |-> exact]
    ELSE [hit |-> TRUE, t |-> tca - thc, exact |-> exact]

\* intersectSphere from tca, d2 = |centre - origin|^2 - tca^2 and radius^2
RaySphereFrom(tca, d2, radius2) ==
    IF d2 > radius2 THEN RayMiss
    ELSE RayThroughSphere(tca, ISqrt(radius2 - d2),
                          ISqrt(radius2 - d2) * ISqrt(radius2 - d2) = radius2 - d2)

\* ray.intersectSphere(new THREE.Sphere(centre, radius), target)
RayIntersectSphere(origin, d, centre, radius) ==
    RaySphereFrom(Dot(SubV(centre, origin), d),
                  LengthSq(SubV(centre, origin))
                      - Dot(SubV(centre, origin), d) * Dot(SubV(centre, origin), d),
                  radius * radius)

\* the numbers of the slab test: finite, an infinity (a division by the
\* direction's 0) or NaN (0 * Infinity)
Fin(n) == [nan |-> FALSE, inf |-> 0, n |-> n]

PosInf == [nan |-> FALSE, inf |-> 1, n |-> 0]

NegInf == [nan |-> FALSE, inf |-> -1, n |-> 0]

NaN == [nan |-> TRUE, inf |-> 0, n |-> 0]

\* x > y: false when either side is NaN
ExtGt(x, y) ==
    IF x.nan \/ y.nan THEN FALSE
    ELSE IF x.inf # y.inf THEN x.inf > y.inf
    ELSE x.inf = 0 /\ x.n > y.n

\* (m - o) * (1 / di) for a direction component di of -1, 0 or 1
SlabT(m, o, di) ==
    IF di # 0 THEN Fin((m - o) * di)
    ELSE IF m - o > 0 THEN PosInf
    ELSE IF m - o < 0 THEN NegInf
    ELSE NaN

\* <<tmin, tmax>> of the axis i: the bounds swap when 1 / d[i] is negative
Slab(origin, d, bmin, bmax, i) ==
    IF d[i] >= 0
    THEN <<SlabT(bmin[i], origin[i], d[i]), SlabT(bmax[i], origin[i], d[i])>>
    ELSE <<SlabT(bmax[i], origin[i], d[i]), SlabT(bmin[i], origin[i], d[i])>>

\* one narrowing step of intersectBox: cur is <<tmin, tmax>> so far (<<>> once
\* the ray has missed), nxt the slab of the next axis
SlabMeet(cur, nxt) ==
    IF cur = <<>> THEN <<>>
    ELSE IF ExtGt(cur[1], nxt[2]) \/ ExtGt(nxt[1], cur[2]) THEN <<>>
    ELSE <<IF ExtGt(nxt[1], cur[1]) \/ cur[1].nan THEN nxt[1] ELSE cur[1],
           IF ExtGt(cur[2], nxt[2]) \/ cur[2].nan THEN nxt[2] ELSE cur[2]>>

\* the end of intersectBox: null if tmax < 0, else at(tmin >= 0 ? tmin : tmax)
SlabResult(tt) ==
    IF tt = <<>> THEN RayMiss
    ELSE IF ExtGt(Fin(0), tt[2]) THEN RayMiss
    ELSE IF ExtGt(tt[1], Fin(0)) \/ tt[1] = Fin(0)
         THEN [hit |-> TRUE, t |-> tt[1].n, exact |-> tt[1].inf = 0]
    ELSE [hit |-> TRUE, t |-> tt[2].n, exact |-> tt[2].inf = 0 /\ ~tt[2].nan]

\* ray.intersectBox(new THREE.Box3(bmin, bmax), target)
RayIntersectBox(origin, d, bmin, bmax) ==
    SlabResult(SlabMeet(SlabMeet(Slab(origin, d, bmin, bmax, 1),
                                 Slab(origin, d, bmin, bmax, 2)),
                        Slab(origin, d, bmin, bmax, 3)))

-----------------------------------------------------------------------------
(* CollisionSystem: pair test, response, resolution *)

Range(seq) == {seq[i] : i \in DOMAIN seq}

\* Collider.updateWorldPosition(): a collider without parent keeps its position
UpdateWorldPosition(c, pp, wp, o) ==
    IF c[o].hasParent THEN [wp EXCEPT ![o] = AddV(pp[o], c[o].offset)] ELSE wp

\* the method a.intersectsSphere(b) of a's class
CallIntersectsSphere(c, wp, a, b) ==
    CASE c[a].kind = "SphereCollider"   -> SphereIntersectsSphere(c, wp, a, b)
      [] c[a].kind = "CylinderCollider" -> CylinderIntersectsSphere(c, wp, a, b)
      [] c[a].kind = "CapsuleCollider"  -> CapsuleIntersectsSphere(c, wp, a, b)
      [] c[a].kind = "BoxCollider"      -> BoxIntersectsSphere(c, wp, a, wp[b], c[b].radius)

\* checkCollision(a, b), once the two world positions are refreshed
CheckCollision(c, en, wp, a, b) ==
    LET ta == c[a].type
        tb == c[b].type
    IN IF ~CanCollideWith(c, en, a, b) THEN FALSE
       ELSE IF ta = ColliderType.SPHERE /\ tb = ColliderType.SPHERE
            THEN CallIntersectsSphere(c, wp, a, b)
       ELSE IF ta = ColliderType.CAPSULE /\ tb = ColliderType.CAPSULE
            THEN CapsuleIntersectsCapsule(c, wp, a, b)
       ELSE IF ta = ColliderType.CAPSULE /\ tb = ColliderType.SPHERE
            THEN CallIntersectsSphere(c, wp, a, b)
       ELSE IF ta = ColliderType.SPHERE /\ tb = ColliderType.CAPSULE
            THEN CallIntersectsSphere(c, wp, b, a)
       ELSE IF ta = ColliderType.BOX /\ tb = ColliderType.BOX
            THEN BoxIntersectsBox(c, wp, a, b)
       ELSE IF ta = ColliderType.BOX /\ tb = ColliderType.SPHERE
            THEN CallIntersectsSphere(c, wp, a, b)
       ELSE IF ta = ColliderType.SPHERE /\ tb = ColliderType.BOX
            THEN CallIntersectsSphere(c, wp, b, a)
       ELSE IF ta = ColliderType.BOX /\ tb = ColliderType.CAPSULE
            THEN BoxIntersectsSphere(c, wp, a, wp[b], c[b].radius)
       ELSE IF ta = ColliderType.CAPSULE /\ tb = ColliderType.BOX
            THEN BoxIntersectsSphere(c, wp, b, wp[a], c[a].radius)
       ELSE FALSE

\* the world positions after checkCollision(a, b): refreshed only past the filter
AfterCheck(c, en, pp, wp, a, b) ==
    IF CanCollideWith(c, en, a, b)
    THEN UpdateWorldPosition(c, pp, UpdateWorldPosition(c, pp, wp, a), b)
    ELSE wp

\* the fallback response: direction a - b, overlap 0.1
FallbackResponse(wp, a, b) ==
    LET direction == Normalize(SubV(wp[a], wp[b]))
    IN [direction |-> direction, overlap |-> 2, normal |-> direction,
        exact |-> ExactLength(SubV(wp[a], wp[b]))]

\* getCollisionResponse(a, b). CylinderCollider defines no getCollisionResponse,
\* so the call a.getCollisionResponse(b) on a cylinder throws a TypeError.
GetCollisionResponse(c, wp, a, b) ==
    LET ta == c[a].type
        tb == c[b].type
        Ok(r) == [threw |-> FALSE, response |-> r]
    IN IF ta = ColliderType.SPHERE /\ tb = ColliderType.SPHERE
       THEN (IF c[a].kind = "SphereCollider"
             THEN Ok(SphereGetCollisionResponse(c, wp, a, b))
             ELSE [threw |-> TRUE])
       ELSE IF ta = ColliderType.SPHERE /\ tb = ColliderType.BOX
       THEN Ok(BoxGetCollisionResponseForSphere(c, wp, b, a))
       ELSE IF ta = ColliderType.CAPSULE
       THEN Ok(CapsuleGetCollisionResponse(c, wp, a, b))
       ELSE IF ta = ColliderType.BOX /\ tb = ColliderType.SPHERE
       THEN Ok(BoxGetCollisionResponseForSphere(c, wp, a, b))
       ELSE Ok(FallbackResponse(wp, a, b))

\* { ...response, normal: normal.negate(), direction: direction.negate() }
ResponseForB(response) ==
    [response EXCEPT !.normal = NegDir(response.normal),
                     !.direction = NegDir(response.direction)]

\* response.direction.clone().multiplyScalar(response.overlap)
PushVector(response) == MulDir(response.direction, response.overlap)

\* pushVector.multiplyScalar(0.5)
HalfPush(response) ==
    <<Quot(PushVector(response)[1], 2), Quot(PushVector(response)[2], 2),
      Quot(PushVector(response)[3], 2)>>

\* resolveCollision without the isStatic tests: every pair is split in halves
ResolveCollisionIgnoresStatic(c, pp, a, b, response) ==
    IF c[a].isTrigger \/ c[b].isTrigger THEN pp
    ELSE [pp EXCEPT ![a] = AddV(pp[a], HalfPush(response)),
                    ![b] = SubV(pp[b], HalfPush(response))]

\* resolveCollision without the 0.5 factor: both sides take the whole push
ResolveCollisionWholePush(c, pp, a, b, response) ==
    IF c[a].isTrigger \/ c[b].isTrigger THEN pp
    ELSE IF c[a].isStatic /\ c[b].isStatic THEN pp
    ELSE IF c[a].isStatic THEN [pp EXCEPT ![b] = SubV(pp[b], PushVector(response))]
    ELSE IF c[b].isStatic THEN [pp EXCEPT ![a] = AddV(pp[a], PushVector(response))]
    ELSE [pp EXCEPT ![a] = AddV(pp[a], PushVector(response)),
                    ![b] = SubV(pp[b], PushVector(response))]

\* resolveCollision without the isTrigger test: a trigger pair is pushed apart
ResolveCollisionIgnoresTrigger(c, pp, a, b, response) ==
    IF c[a].isStatic /\ c[b].isStatic THEN pp
    ELSE IF c[a].isStatic THEN [pp EXCEPT ![b] = SubV(pp[b], PushVector(response))]
    ELSE IF c[b].isStatic THEN [pp EXCEPT ![a] = AddV(pp[a], PushVector(response))]
    ELSE [pp EXCEPT ![a] = AddV(pp[a], HalfPush(response)),
                    ![b] = SubV(pp[b], HalfPush(response))]

\* resolveCollision(a, b, response): the owner positions afterwards
ResolveCollision(c, pp, a, b, response) ==
    IF c[a].isTrigger \/ c[b].isTrigger THEN pp
    ELSE IF c[a].isStatic /\ c[b].isStatic THEN pp
    ELSE IF c[a].isStatic
         THEN (IF c[b].hasParent
               THEN [pp EXCEPT ![b] = SubV(pp[b], PushVector(response))] ELSE pp)
    ELSE IF c[b].isStatic
         THEN (IF c[a].hasParent
               THEN [pp EXCEPT ![a] = AddV(pp[a], PushVector(response))] ELSE pp)
    ELSE LET pa == IF c[a].hasParent
                   THEN [pp EXCEPT ![a] = AddV(pp[a], HalfPush(response))] ELSE pp
         IN IF c[b].hasParent
            THEN [pa EXCEPT ![b] = SubV(pa[b], HalfPush(response))] ELSE pa

\* whether the fixed-point values of a resolution are the exact ones
ResolveExact(c, a, b, response) ==
    LET d == response.direction
        k == response.overlap
        whole == \A i \in 1..3 : Divides(d.len, d.v[i] * k)
        halves == \A i \in 1..3 : Divides(2, PushVector(response)[i])
    IN /\ response.exact
       /\ (c[a].isTrigger \/ c[b].isTrigger \/ (c[a].isStatic /\ c[b].isStatic)
           \/ (whole /\ (c[a].isStatic \/ c[b].isStatic \/ halves)))

-----------------------------------------------------------------------------
(* CollisionSystem.update(): the sweep over the pairs, then the ended overlaps. *)
(* A sweep state st holds the fields the tick mutates: pp (owner positions),    *)
(* wp (world positions), act (activeCollisions), cur (the keys of               *)
(* currentCollisions), log (pair tests, callbacks and corrections in order),    *)
(* ok (every value so far is exact in fixed point), threw (an exception         *)
(* unwound the call).                                                           *)

\* Set.add on an insertion-ordered set
SetAdd(seq, x) == IF x \in Range(seq) THEN seq ELSE Append(seq, x)

\* the members of seq that are not in the set gone, in order
RECURSIVE Without(_, _)
Without(seq, gone) ==
    IF seq = <<>> THEN <<>>
    ELSE IF Head(seq) \in gone THEN Without(Tail(seq), gone)
    ELSE <<Head(seq)>> \o Without(Tail(seq), gone)

\* this.colliders.get(id): the slot registered under id, 0 for undefined
MapGet(c, reg, id) ==
    IF \E i \in DOMAIN reg : c[reg[i]].id = id
    THEN reg[CHOOSE i \in DOMAIN reg : c[reg[i]].id = id]
    ELSE 0

\* this.colliders.has(id)
MapHas(c, reg, id) == MapGet(c, reg, id) # 0

\* the rest of the inner loop's body once checkCollision(a, b) returned true:
\* call is the outcome of getCollisionResponse(a, b), pp1 the owner positions
\* resolveCollision leaves
PairHit(c, st, a, b, tested, call, pp1, wasCollidingA, kind) ==
    IF call.threw
    THEN [tested EXCEPT !.cur = st.cur \cup {PairKey(c[a].id, c[b].id)}, !.threw = TRUE]
    ELSE [pp |-> pp1,
          wp |-> tested.wp,
          act |-> IF ~wasCollidingA
                  THEN [st.act EXCEPT ![a] = SetAdd(st.act[a], c[b].id),
                                      ![b] = SetAdd(st.act[b], c[a].id)]
                  ELSE st.act,
          cur |-> st.cur \cup {PairKey(c[a].id, c[b].id)},
          log |-> tested.log \o
                  <<[cb |-> kind, to |-> a, other |-> b, response |-> call.response],
                    [cb |-> kind, to |-> b, other |-> a,
                     response |-> ResponseForB(call.response)],
                    [cb |-> "resolve", to |-> a, other |-> b, response |-> call.response,
                     da |-> SubV(pp1[a], st.pp[a]), db |-> SubV(pp1[b], st.pp[b]),
                     wa |-> tested.wp[a], wb |-> tested.wp[b]]>>,
          ok |-> st.ok /\ ResolveExact(c, a, b, call.response),
          threw |-> FALSE]

\* the branch on checkCollision(a, b): tested is the sweep state after the
\* test, call the outcome of getCollisionResponse(a, b)
PairBranch(c, st, a, b, hit, tested, call) ==
    IF ~hit THEN tested
    ELSE PairHit(c, st, a, b, tested, call,
                 IF call.threw THEN st.pp
                 ELSE ResolveCollision(c, st.pp, a, b, call.response),
                 c[b].id \in Range(st.act[a]),
                 IF c[b].id \in Range(st.act[a]) THEN "stay" ELSE "enter")

\* the inner loop's body after checkCollision(a, b), which left the world
\* positions wp1 and returned hit
PairTested(c, st, a, b, wp1, hit) ==
    PairBranch(c, st, a, b, hit,
               [st EXCEPT !.wp = wp1,
                          !.log = Append(st.log, [cb |-> "check", to |-> a,
                                                  other |-> b, hit |-> hit])],
               IF hit THEN GetCollisionResponse(c, wp1, a, b) ELSE [threw |-> FALSE])

\* the body of the inner loop for the pair (a, b)
PairChecked(c, en, st, a, b, wp1) ==
    PairTested(c, st, a, b, wp1, CheckCollision(c, en, wp1, a, b))

PairStep(c, en, st, a, b) ==
    PairChecked(c, en, st, a, b, AfterCheck(c, en, st.pp, st.wp, a, b))

\* for (i ...) for (j = i + 1 ...) over collidersArray, from the pair (i, j) on
RECURSIVE PairLoop(_, _, _, _, _, _)
PairLoop(c, en, arr, st, i, j) ==
    IF st.threw \/ i > Len(arr) THEN st
    ELSE IF j > Len(arr) THEN PairLoop(c, en, arr, st, i + 1, i + 2)
    ELSE PairLoop(c, en, arr, PairStep(c, en, st, arr[i], arr[j]), i, j + 1)

\* the ids one collider drops in the second loop, and its onCollisionExit calls
ExitIds(c, reg, st, o) ==
    {id \in Range(st.act[o]) :
        \/ ~MapHas(c, reg, id)
        \/ PairKey(c[o].id, id) \notin st.cur}

RECURSIVE ExitCalls(_, _, _, _, _)
ExitCalls(c, reg, st, o, ids) ==
    IF ids = <<>> THEN <<>>
    ELSE LET otherId == Head(ids)
             other == MapGet(c, reg, otherId)
         IN (IF other # 0 /\ PairKey(c[o].id, otherId) \notin st.cur
             THEN <<[cb |-> "exit", to |-> o, other |-> other]>>
             ELSE <<>>)
            \o ExitCalls(c, reg, st, o, Tail(ids))

\* the second loop, from position k of collidersArray on
RECURSIVE ExitLoop(_, _, _, _)
ExitLoop(c, reg, st, k) ==
    IF k > Len(reg) THEN st
    ELSE ExitLoop(c, reg,
                  [st EXCEPT
                     !.log = st.log \o ExitCalls(c, reg, st, reg[k], st.act[reg[k]]),
                     !.act = [st.act EXCEPT ![reg[k]] = Without(st.act[reg[k]],
                                                                ExitIds(c, reg, st, reg[k]))]],
                  k + 1)

\* collider.updateWorldPosition() for every registered collider
RECURSIVE RefreshAll(_, _, _, _, _)
RefreshAll(c, pp, wp, reg, k) ==
    IF k > Len(reg) THEN wp
    ELSE RefreshAll(c, pp, UpdateWorldPosition(c, pp, wp, reg[k]), reg, k + 1)

\* the second half of update(), unless the first half threw
SweepEnd(c, reg, st1) ==
    IF st1.threw THEN st1 ELSE ExitLoop(c, reg, st1, 1)

\* update(): the sweep state when the call returns or unwinds
Sweep(c, en, pp, wp, act, reg) ==
    SweepEnd(c, reg,
             PairLoop(c, en, reg,
                      [pp |-> pp, wp |-> RefreshAll(c, pp, wp, reg, 1), act |-> act,
                       cur |-> {}, log |-> <<>>, ok |-> TRUE, threw |-> FALSE],
                      1, 2))

-----------------------------------------------------------------------------
(* History kept for the lifecycle properties *)

\* open after the callbacks of a log, in order
RECURSIVE OpenAfter(_, _)
OpenAfter(op, lg) ==
    IF lg = <<>> THEN op
    ELSE LET e == Head(lg) IN
         OpenAfter(IF e.cb = "enter" THEN op \cup {<<e.to, e.other>>}
                   ELSE IF e.cb = "exit" THEN op \ {<<e.to, e.other>>}
                   ELSE op,
                   Tail(lg))

\* the pairs whose test was true in a log
HitPairs(lg) == {{lg[i].to, lg[i].other} : i \in {k \in DOMAIN lg : lg[k].cb = "check" /\ lg[k].hit}}

-----------------------------------------------------------------------------
(* The operations *)

\* an id no collider of the pool carries ("z")
UnknownId == <<122>>

PoolIds == {cfg[o].id : o \in DOMAIN cfg}

\* where the game places an owner transform
MovePositions == {<<30 * k, 0, 0>> : k \in 0..MaxPos}

\* addCollider without the has() test: Map.set replaces the registered object
AddColliderOverwrites(o) ==
    /\ o \in DOMAIN cfg
    /\ colliders' = IF MapHas(cfg, colliders, cfg[o].id)
                    THEN [i \in DOMAIN colliders |->
                             IF cfg[colliders[i]].id = cfg[o].id THEN o ELSE colliders[i]]
                    ELSE Append(colliders, o)
    /\ lastOp' = [name |-> "addCollider", result |-> "collider"]
    /\ live' = {x \in live : cfg[x].id # cfg[o].id} \cup {o}
    /\ log' = <<>>
    /\ UNCHANGED <<cfg, enabled, parentPos, worldPosition, activeCollisions, open, prevHit, entered>>

\* addCollider(collider) for the object in slot o
AddCollider(o) ==
    /\ o \in DOMAIN cfg
    /\ IF MapHas(cfg, colliders, cfg[o].id)
       THEN /\ colliders' = colliders
            /\ lastOp' = [name |-> "addCollider", result |-> "undefined"]
            /\ live' = live
       ELSE /\ colliders' = Append(colliders, o)
            /\ lastOp' = [name |-> "addCollider", result |-> "collider"]
            /\ live' = live \cup {o}
    /\ log' = <<>>
    /\ UNCHANGED <<cfg, enabled, parentPos, worldPosition, activeCollisions, open, prevHit, entered>>

\* removeCollider without this.colliders.delete(colliderId)
RemoveColliderKeepsEntry(id) ==
    /\ activeCollisions' = IF MapHas(cfg, colliders, id)
                           THEN [activeCollisions EXCEPT ![MapGet(cfg, colliders, id)] = <<>>]
                           ELSE activeCollisions
    /\ log' = <<>>
    /\ lastOp' = [name |-> "removeCollider", result |-> "undefined"]
    /\ live' = {x \in live : cfg[x].id # id}
    /\ UNCHANGED <<cfg, enabled, parentPos, worldPosition, colliders, open, prevHit, entered>>

\* removeCollider without the if (collider) guard: dispose() is called on
\* undefined for an id that is not registered
RemoveColliderUnguarded(id) ==
    LET o == MapGet(cfg, colliders, id) IN
    /\ IF o # 0
       THEN /\ activeCollisions' = [activeCollisions EXCEPT ![o] = <<>>]
            /\ colliders' = Without(colliders, {o})
            /\ prevHit' = {pr \in prevHit : o \notin pr}
       ELSE UNCHANGED <<activeCollisions, colliders, prevHit>>
    /\ log' = <<>>
    /\ lastOp' = [name |-> "removeCollider",
                  result |-> IF o # 0 THEN "undefined" ELSE "TypeError"]
    /\ live' = {x \in live : cfg[x].id # id}
    /\ entered' = {pr \in entered : pr[1] # o}
    /\ UNCHANGED <<cfg, enabled, parentPos, worldPosition, open>>

\* removeCollider(colliderId): dispose() clears the removed collider's own set
RemoveCollider(id) ==
    LET o == MapGet(cfg, colliders, id) IN
    /\ IF o # 0
       THEN /\ activeCollisions' = [activeCollisions EXCEPT ![o] = <<>>]
            /\ colliders' = Without(colliders, {o})
            /\ prevHit' = {pr \in prevHit : o \notin pr}
       ELSE UNCHANGED <<activeCollisions, colliders, prevHit>>
    /\ log' = <<>>
    /\ lastOp' = [name |-> "removeCollider", result |-> "undefined"]
    /\ live' = {x \in live : cfg[x].id # id}
    /\ entered' = {pr \in entered : pr[1] # o}
    /\ UNCHANGED <<cfg, enabled, parentPos, worldPosition, open>>

\* the state update() leaves, st being the sweep state at its end
UpdateTo(st) ==
    /\ st.ok
    /\ parentPos' = st.pp
    /\ worldPosition' = st.wp
    /\ activeCollisions' = st.act
    /\ log' = st.log
    /\ lastOp' = [name |-> "update", result |-> IF st.threw THEN "TypeError" ELSE "undefined"]
    /\ open' = OpenAfter(open, st.log)
    /\ entered' = OpenAfter(entered, st.log)
    /\ prevHit' = HitPairs(st.log)
    /\ UNCHANGED <<cfg, enabled, colliders, live>>

\* The owner positions a tick can find: since the last operation the game may
\* have moved the owner (collider.parent.position) of any registered collider
\* that is not static to one of the places of MovePositions.
Movable ==
    {o \in Range(colliders) : cfg[o].hasParent /\ ~cfg[o].isStatic}

Placements ==
    {[o \in DOMAIN cfg |-> IF o \in Movable /\ f[o] # <<>> THEN f[o] ELSE parentPos[o]] :
        f \in [Movable -> MovePositions \cup {<<>>}]}

\* update() on the owner positions pp; enabled while every value of the tick
\* is exact in fixed point
Update(pp) ==
    UpdateTo(Sweep(cfg, enabled, pp, worldPosition, activeCollisions, colliders))

\* the game moves the owner transform of a collider that is not static:
\* collider.parent.position.set(...) between two ticks
MoveOwner(o, p) ==
    /\ o \in DOMAIN cfg
    /\ cfg[o].hasParent /\ ~cfg[o].isStatic
    /\ parentPos' = [parentPos EXCEPT ![o] = p]
    /\ lastOp' = [name |-> "move", o |-> o, result |-> "undefined"]
    /\ log' = <<>>
    /\ UNCHANGED <<cfg, enabled, worldPosition, activeCollisions, colliders, open, prevHit,
                   entered, live>>

\* the owner sets collider.enabled
SetEnabled(o, v) ==
    /\ o \in DOMAIN cfg
    /\ enabled[o] # v
    /\ enabled' = [enabled EXCEPT ![o] = v]
    /\ log' = <<>>
    /\ lastOp' = [name |-> "setEnabled", result |-> "undefined"]
    /\ UNCHANGED <<cfg, parentPos, worldPosition, activeCollisions, colliders, open, prevHit, entered,
                   live>>

\* the owner sets collider.collidesWithMask
SetCollidesWithMask(o, mask) ==
    /\ o \in DOMAIN cfg
    /\ cfg[o].collidesWithMask # mask
    /\ cfg' = [cfg EXCEPT ![o].collidesWithMask = mask]
    /\ log' = <<>>
    /\ lastOp' = [name |-> "setCollidesWithMask", result |-> "undefined"]
    /\ UNCHANGED <<enabled, parentPos, worldPosition, activeCollisions, colliders, open,
                   prevHit, live, entered>>

\* getCollider(colliderId): the registered slot, 0 for undefined
GetCollider(id) ==
    /\ lastOp' = [name |-> "getCollider", id |-> id, result |-> MapGet(cfg, colliders, id)]
    /\ log' = <<>>
    /\ UNCHANGED <<cfg, enabled, parentPos, worldPosition, activeCollisions, colliders, open,
                   prevHit, live, entered>>

\* dispose() without this.colliders.clear()
DisposeKeepsEntries ==
    /\ activeCollisions' = [o \in DOMAIN cfg |->
                               IF o \in Range(colliders) THEN <<>> ELSE activeCollisions[o]]
    /\ log' = <<>>
    /\ lastOp' = [name |-> "dispose", result |-> "undefined"]
    /\ live' = {}
    /\ entered' = {pr \in entered : pr[1] \notin Range(colliders)}
    /\ UNCHANGED <<cfg, enabled, parentPos, worldPosition, colliders, open, prevHit>>

\* dispose(): collider.dispose() for every registered collider, then
\* this.colliders.clear()
Dispose ==
    /\ activeCollisions' = [o \in DOMAIN cfg |->
                               IF o \in Range(colliders) THEN <<>> ELSE activeCollisions[o]]
    /\ colliders' = <<>>
    /\ prevHit' = {}
    /\ log' = <<>>
    /\ lastOp' = [name |-> "dispose", result |-> "undefined"]
    /\ live' = {}
    /\ entered' = {pr \in entered : pr[1] \notin Range(colliders)}
    /\ UNCHANGED <<cfg, enabled, parentPos, worldPosition, open>>

\* a call of checkCollision(a, b) on the objects in slots a and b
CheckCollisionOp(a, b) ==
    /\ a \in DOMAIN cfg /\ b \in DOMAIN cfg
    /\ worldPosition' = AfterCheck(cfg, enabled, parentPos, worldPosition, a, b)
    /\ lastOp' = [name |-> "checkCollision", a |-> a, b |-> b,
                  result |-> CheckCollision(cfg, enabled, worldPosition', a, b)]
    /\ log' = <<>>
    /\ UNCHANGED <<cfg, enabled, parentPos, activeCollisions, colliders, open, prevHit, entered, live>>

\* a call of getCollisionResponse(a, b); enabled while the returned values
\* are exact in fixed point
GetCollisionResponseOp(a, b) ==
    /\ a \in DOMAIN cfg /\ b \in DOMAIN cfg
    /\ worldPosition' = UpdateWorldPosition(cfg, parentPos,
                            UpdateWorldPosition(cfg, parentPos, worldPosition, a), b)
    /\ LET call == GetCollisionResponse(cfg, worldPosition', a, b) IN
       /\ IF call.threw THEN TRUE ELSE call.response.exact
       /\ lastOp' = [name |-> "getCollisionResponse", a |-> a, b |-> b, result |-> call]
    /\ log' = <<>>
    /\ UNCHANGED <<cfg, enabled, parentPos, activeCollisions, colliders, open, prevHit, entered, live>>

\* the parameters with a default: an absent argument is <<>>, a given one
\* <<value>>; layerMask defaults to CollisionLayer.ALL
LayerMaskOf(layerMask) == IF layerMask = <<>> THEN LayerALL ELSE layerMask[1]

\* distance <= maxDistance, the default being Number.POSITIVE_INFINITY
WithinDistance(distance, maxDistance) ==
    IF maxDistance = <<>> THEN TRUE ELSE distance <= maxDistance[1]

\* the colliders a query looks at: enabled, and of a layer the mask accepts
Queried(c, en, o, mask) == en[o] /\ BitAnd(c[o].layer, mask) # 0

\* the world positions after a query refreshed those of the colliders it looks at
QueryRefresh(c, en, pp, wp, reg, mask) ==
    [o \in DOMAIN wp |->
        IF o \in Range(reg) /\ Queried(c, en, o, mask)
        THEN UpdateWorldPosition(c, pp, wp, o)[o] ELSE wp[o]]

\* the intersection raycast computes for the collider o: only the types
\* "sphere" and "box" are tested
RayIntersection(c, wp, o, origin, d) ==
    IF c[o].type = ColliderType.SPHERE
    THEN RayIntersectSphere(origin, d, wp[o], c[o].radius)
    ELSE IF c[o].type = ColliderType.BOX
    THEN RayIntersectBox(origin, d, BoxMin(c, wp, o), BoxMax(c, wp, o))
    ELSE RayMiss

\* ray.at(t)
RayAt(origin, d, t) == AddV(origin, <<d[1] * t, d[2] * t, d[3] * t>>)

\* what the loop body pushes for the collider o, x being its intersection
RayPush(o, origin, point, x, maxDistance) ==
    IF x.hit /\ WithinDistance(DistanceTo(origin, point), maxDistance)
    THEN <<[collider |-> o, point |-> point, distance |-> DistanceTo(origin, point)]>>
    ELSE <<>>

RayPushFor(o, origin, d, x, maxDistance) ==
    RayPush(o, origin, RayAt(origin, d, x.t), x, maxDistance)

\* results after the loop over this.colliders.values(), from position k on
RECURSIVE RayResults(_, _, _, _, _, _, _, _, _)
RayResults(c, en, wp, reg, origin, d, maxDistance, mask, k) ==
    IF k > Len(reg) THEN <<>>
    ELSE (IF Queried(c, en, reg[k], mask)
          THEN RayPushFor(reg[k], origin, d,
                          RayIntersection(c, wp, reg[k], origin, d), maxDistance)
          ELSE <<>>)
         \o RayResults(c, en, wp, reg, origin, d, maxDistance, mask, k + 1)

\* whether every intersection of the call is exact in fixed point
RayExact(c, en, wp, reg, origin, d, mask) ==
    \A o \in Range(reg) :
        Queried(c, en, o, mask) => RayIntersection(c, wp, o, origin, d).exact

\* results.sort((a, b) => a.distance - b.distance): the sort is stable, an
\* element goes before the first one of greater distance
RECURSIVE InsertByDistance(_, _)
InsertByDistance(sorted, h) ==
    IF sorted = <<>> THEN <<h>>
    ELSE IF Head(sorted).distance > h.distance THEN <<h>> \o sorted
    ELSE <<Head(sorted)>> \o InsertByDistance(Tail(sorted), h)

RECURSIVE SortInto(_, _)
SortInto(sorted, rest) ==
    IF rest = <<>> THEN sorted
    ELSE SortInto(InsertByDistance(sorted, Head(rest)), Tail(rest))

SortByDistance(results) == SortInto(<<>>, results)

\* the state a raycast leaves when it returns results, d being the normalized
\* direction and wp1 the refreshed world positions
RaycastReturns(origin, d, maxDistance, layerMask, wp1, results) ==
    /\ d.len = 1
    /\ RayExact(cfg, enabled, wp1, colliders, origin, d.v, LayerMaskOf(layerMask))
    /\ worldPosition' = wp1
    /\ lastOp' = [name |-> "raycast", origin |-> origin, direction |-> d.v,
                  maxDistance |-> maxDistance, layerMask |-> layerMask, result |-> results]
    /\ log' = <<>>
    /\ UNCHANGED <<cfg, enabled, parentPos, activeCollisions, colliders, open, prevHit, entered, live>>

RaycastOn(origin, d, maxDistance, layerMask, wp1) ==
    RaycastReturns(origin, d, maxDistance, layerMask, wp1,
                   SortByDistance(RayResults(cfg, enabled, wp1, colliders, origin, d.v,
                                             maxDistance, LayerMaskOf(layerMask), 1)))

\* raycast without results.sort: the hits stay in registration order
RaycastUnsorted(origin, direction, maxDistance, layerMask) ==
    LET wp1 == QueryRefresh(cfg, enabled, parentPos, worldPosition, colliders,
                            LayerMaskOf(layerMask))
    IN RaycastReturns(origin, Normalize(direction), maxDistance, layerMask, wp1,
                      RayResults(cfg, enabled, wp1, colliders, origin, Normalize(direction).v,
                                 maxDistance, LayerMaskOf(layerMask), 1))

\* raycast(origin, direction, maxDistance, layerMask)
Raycast(origin, direction, maxDistance, layerMask) ==
    RaycastOn(origin, Normalize(direction), maxDistance, layerMask,
              QueryRefresh(cfg, enabled, parentPos, worldPosition, colliders,
                           LayerMaskOf(layerMask)))

\* distance <= effectiveRadius for distance = p.distanceTo(q): compared on
\* the squares, so that no rounding of the square root decides it
WithinReach(p, q, effectiveRadius) ==
    LengthSq(SubV(p, q)) <= effectiveRadius * effectiveRadius

\* results after the loop of overlapSphere over this.colliders.values(), from
\* position k on
RECURSIVE OverlapResults(_, _, _, _, _, _, _, _)
OverlapResults(c, en, wp, reg, center, radius, mask, k) ==
    IF k > Len(reg) THEN <<>>
    ELSE (IF /\ Queried(c, en, reg[k], mask)
             /\ WithinReach(center, wp[reg[k]], radius + RadiusOr0(c[reg[k]]))
          THEN <<reg[k]>> ELSE <<>>)
         \o OverlapResults(c, en, wp, reg, center, radius, mask, k + 1)

\* overlapSphere that also forgets the overlaps of the colliders it returns
OverlapSphereReturnsForgetting(center, radius, layerMask, wp1, results) ==
    /\ worldPosition' = wp1
    /\ lastOp' = [name |-> "overlapSphere", center |-> center, radius |-> radius,
                  layerMask |-> layerMask, result |-> results]
    /\ log' = <<>>
    /\ activeCollisions' = [o \in DOMAIN activeCollisions |->
                               IF o \in Range(results) THEN <<>> ELSE activeCollisions[o]]
    /\ UNCHANGED <<cfg, enabled, parentPos, colliders, open, prevHit, entered, live>>

\* the state overlapSphere leaves when it returns results, wp1 being the
\* refreshed world positions
OverlapSphereReturns(center, radius, layerMask, wp1, results) ==
    /\ worldPosition' = wp1
    /\ lastOp' = [name |-> "overlapSphere", center |-> center, radius |-> radius,
                  layerMask |-> layerMask, result |-> results]
    /\ log' = <<>>
    /\ UNCHANGED <<cfg, enabled, parentPos, activeCollisions, colliders, open, prevHit, entered, live>>

OverlapSphereOn(center, radius, layerMask, wp1) ==
    OverlapSphereReturns(center, radius, layerMask, wp1,
                         OverlapResults(cfg, enabled, wp1, colliders, center, radius,
                                        LayerMaskOf(layerMask), 1))

\* overlapSphere with radius alone as the reach: collider.radius is not added
OverlapSphereIgnoresRadius(center, radius, layerMask) ==
    OverlapSphereReturns(center, radius, layerMask,
        QueryRefresh(cfg, enabled, parentPos, worldPosition, colliders, LayerMaskOf(layerMask)),
        OverlapResults([o \in DOMAIN cfg |-> [layer |-> cfg[o].layer]], enabled,
                       QueryRefresh(cfg, enabled, parentPos, worldPosition, colliders,
                                    LayerMaskOf(layerMask)),
                       colliders, center, radius, LayerMaskOf(layerMask), 1))

\* overlapSphere(center, radius, layerMask)
OverlapSphere(center, radius, layerMask) ==
    OverlapSphereOn(center, radius, layerMask,
                    QueryRefresh(cfg, enabled, parentPos, worldPosition, colliders,
                                 LayerMaskOf(layerMask)))

-----------------------------------------------------------------------------
(* Spec: the registry life cycle. Four collider objects, two of them       *)
(* constructed with the same id, are registered, removed, moved and swept. *)

LifecyclePool ==
    <<SphereCollider([id |-> <<97>>, layer |-> LayerPLAYER, radius |-> 20, parent |-> TRUE]),
      SphereCollider([id |-> <<98>>, isStatic |-> TRUE, radius |-> 20, parent |-> TRUE]),
      SphereCollider([id |-> <<99>>, isStatic |-> TRUE, isTrigger |-> TRUE,
                      layer |-> LayerTRIGGER, radius |-> 20, parent |-> TRUE]),
      SphereCollider([id |-> <<98>>, isStatic |-> TRUE, layer |-> LayerNPC, radius |-> 20,
                      collidesWithMask |-> LayerENVIRONMENT + LayerNPC, parent |-> TRUE])>>

\* the state right after the constructors: nothing registered yet
Constructed(pool) ==
    /\ cfg = pool
    /\ enabled = [o \in DOMAIN pool |-> TRUE]
    /\ worldPosition = [o \in DOMAIN pool |-> Zero3]
    /\ activeCollisions = [o \in DOMAIN pool |-> <<>>]
    /\ log = <<>>
    /\ lastOp = [name |-> "constructor", result |-> "undefined"]
    /\ open = {}
    /\ prevHit = {}
    /\ live = {}
    /\ entered = {}

Init ==
    /\ Constructed(LifecyclePool)
    /\ parentPos = <<Zero3, <<30, 0, 0>>, <<60, 0, 0>>, <<30, 0, 0>>>>
    /\ colliders = <<>>

Next ==
    \/ \E o \in DOMAIN cfg : AddCollider(o)
    \/ \E id \in PoolIds \cup {UnknownId} : RemoveCollider(id)
    \/ \E pp \in Placements : Update(pp)

Spec == Init /\ [][Next]_vars

-----------------------------------------------------------------------------
(* SpecScene: one of five scenes of three colliders is constructed; its     *)
(* colliders are registered in any order and swept, and nothing is removed. *)
(* The scenes differ in the flags, layers and classes of their colliders.   *)

\* a dynamic sphere next to two static spheres that overlap each other
SceneStatics ==
    [pool |-> <<SphereCollider([id |-> <<97>>, layer |-> LayerPLAYER, radius |-> 20,
                                parent |-> TRUE]),
                SphereCollider([id |-> <<98>>, isStatic |-> TRUE, radius |-> 20,
                                parent |-> TRUE]),
                SphereCollider([id |-> <<99>>, isStatic |-> TRUE, radius |-> 20,
                                parent |-> TRUE])>>,
     at |-> <<Zero3, <<30, 0, 0>>, <<60, 0, 0>>>>]

\* two dynamic spheres and a static sphere in a row
SceneDynamics ==
    [pool |-> <<SphereCollider([id |-> <<97>>, layer |-> LayerPLAYER, radius |-> 20,
                                parent |-> TRUE]),
                SphereCollider([id |-> <<98>>, layer |-> LayerNPC, radius |-> 20,
                                parent |-> TRUE]),
                SphereCollider([id |-> <<99>>, isStatic |-> TRUE, radius |-> 20,
                                parent |-> TRUE])>>,
     at |-> <<Zero3, <<30, 0, 0>>, <<60, 0, 0>>>>]

\* a dynamic sphere, a dynamic trigger sphere and a static trigger sphere
SceneTriggers ==
    [pool |-> <<SphereCollider([id |-> <<97>>, layer |-> LayerPLAYER, radius |-> 20,
                                parent |-> TRUE]),
                SphereCollider([id |-> <<98>>, isTrigger |-> TRUE, layer |-> LayerTRIGGER,
                                radius |-> 20, parent |-> TRUE]),
                SphereCollider([id |-> <<99>>, isStatic |-> TRUE, isTrigger |-> TRUE,
                                layer |-> LayerTRIGGER, radius |-> 20, parent |-> TRUE])>>,
     at |-> <<Zero3, <<30, 0, 0>>, <<30, 0, 0>>>>]

\* two dynamic spheres whose masks exclude each other, and a static sphere
SceneLayers ==
    [pool |-> <<SphereCollider([id |-> <<97>>, layer |-> LayerPLAYER, radius |-> 20,
                                collidesWithMask |-> LayerENVIRONMENT + LayerNPC,
                                parent |-> TRUE]),
                SphereCollider([id |-> <<98>>, layer |-> LayerNPC, radius |-> 20,
                                collidesWithMask |-> LayerENVIRONMENT + LayerNPC,
                                parent |-> TRUE]),
                SphereCollider([id |-> <<99>>, isStatic |-> TRUE, radius |-> 20,
                                parent |-> TRUE])>>,
     at |-> <<Zero3, Zero3, <<30, 0, 0>>>>]

\* a static trigger cylinder, a dynamic sphere and a static sphere
SceneCylinder ==
    [pool |-> <<CylinderCollider([id |-> <<97>>, isStatic |-> TRUE, isTrigger |-> TRUE,
                                  layer |-> LayerTRIGGER, radius |-> 20, height |-> 40,
                                  parent |-> TRUE]),
                SphereCollider([id |-> <<98>>, layer |-> LayerPLAYER, radius |-> 20,
                                parent |-> TRUE]),
                SphereCollider([id |-> <<99>>, isStatic |-> TRUE, radius |-> 20,
                                parent |-> TRUE])>>,
     at |-> <<<<30, 0, 0>>, Zero3, <<60, 0, 0>>>>]

Scenes == {SceneStatics, SceneDynamics, SceneTriggers, SceneLayers, SceneCylinder}

InitScene ==
    \E s \in Scenes :
        /\ Constructed(s.pool)
        /\ parentPos = s.at
        /\ colliders = <<>>

NextScene ==
    \/ \E o \in DOMAIN cfg : AddCollider(o)
    \/ \E pp \in Placements : Update(pp)

SpecScene == InitScene /\ [][NextScene]_vars

-----------------------------------------------------------------------------
(* SpecKeys: four registered colliders whose ids are "a", "b:c", "a:b" and  *)
(* "c". The layers let only "a" meet "b:c" and only "a:b" meet "c".         *)

KeysPool ==
    <<SphereCollider([id |-> <<97>>, layer |-> LayerPLAYER, collidesWithMask |-> LayerPLAYER,
                      radius |-> 20, parent |-> TRUE]),
      SphereCollider([id |-> <<98, 58, 99>>, isStatic |-> TRUE, layer |-> LayerPLAYER,
                      collidesWithMask |-> LayerPLAYER, radius |-> 20, parent |-> TRUE]),
      SphereCollider([id |-> <<97, 58, 98>>, layer |-> LayerNPC, collidesWithMask |-> LayerNPC,
                      radius |-> 20, parent |-> TRUE]),
      SphereCollider([id |-> <<99>>, isStatic |-> TRUE, layer |-> LayerNPC,
                      collidesWithMask |-> LayerNPC, radius |-> 20, parent |-> TRUE])>>

InitKeys ==
    /\ Constructed(KeysPool)
    /\ parentPos = <<Zero3, <<30, 0, 0>>, Zero3, <<30, 0, 0>>>>
    /\ colliders = <<>>

SpecKeys == InitKeys /\ [][NextScene]_vars

-----------------------------------------------------------------------------
(* SpecShapes: scenes that mix the collider classes, and one whose first    *)
(* collider was constructed without a parent. As in SpecScene the colliders *)
(* are registered in any order and swept.                                   *)

\* a sphere without owner transform, a dynamic sphere and a static sphere
SceneOrphan ==
    [pool |-> <<SphereCollider([id |-> <<97>>, layer |-> LayerPLAYER, radius |-> 20]),
                SphereCollider([id |-> <<98>>, layer |-> LayerNPC, radius |-> 20,
                                parent |-> TRUE]),
                SphereCollider([id |-> <<99>>, isStatic |-> TRUE, radius |-> 20,
                                parent |-> TRUE])>>,
     at |-> <<Zero3, <<30, 0, 0>>, <<60, 0, 0>>>>]

\* a dynamic box, a dynamic sphere and a static sphere
SceneBoxes ==
    [pool |-> <<BoxCollider([id |-> <<97>>, layer |-> LayerPLAYER, size |-> <<40, 40, 40>>,
                             parent |-> TRUE]),
                SphereCollider([id |-> <<98>>, layer |-> LayerNPC, radius |-> 20,
                                parent |-> TRUE]),
                SphereCollider([id |-> <<99>>, isStatic |-> TRUE, radius |-> 20,
                                parent |-> TRUE])>>,
     at |-> <<Zero3, <<30, 0, 0>>, <<60, 0, 0>>>>]

\* a dynamic capsule, a static sphere and a static capsule
SceneCapsules ==
    [pool |-> <<CapsuleCollider([id |-> <<97>>, layer |-> LayerPLAYER, radius |-> 20,
                                 height |-> 60, parent |-> TRUE]),
                SphereCollider([id |-> <<98>>, isStatic |-> TRUE, radius |-> 20,
                                parent |-> TRUE]),
                CapsuleCollider([id |-> <<99>>, isStatic |-> TRUE, radius |-> 20,
                                 height |-> 60, parent |-> TRUE])>>,
     at |-> <<Zero3, <<30, 0, 0>>, <<60, 0, 0>>>>]

\* a dynamic cylinder, a static box and a static capsule
SceneMixed ==
    [pool |-> <<CylinderCollider([id |-> <<97>>, layer |-> LayerPLAYER, radius |-> 20,
                                  height |-> 40, parent |-> TRUE]),
                BoxCollider([id |-> <<98>>, isStatic |-> TRUE, size |-> <<40, 40, 40>>,
                             parent |-> TRUE]),
                CapsuleCollider([id |-> <<99>>, isStatic |-> TRUE, radius |-> 20,
                                 height |-> 60, parent |-> TRUE])>>,
     at |-> <<Zero3, <<30, 0, 0>>, <<60, 0, 0>>>>]

ShapeScenes == {SceneOrphan, SceneBoxes, SceneCapsules, SceneMixed}

InitShapes ==
    \E s \in ShapeScenes :
        /\ Constructed(s.pool)
        /\ parentPos = s.at
        /\ colliders = <<>>

SpecShapes == InitShapes /\ [][NextScene]_vars

-----------------------------------------------------------------------------
(* SpecPairs: two collider objects of any two classes are constructed, the  *)
(* first with its owner at the origin and the second at an offset in the    *)
(* xy plane; checkCollision and getCollisionResponse are called on them in  *)
(* both argument orders.                                                    *)

\* one object of each collider class, 2 x 2 x 2 or of radius 1
ShapeOf(class, id) ==
    CASE class = "SphereCollider" ->
            SphereCollider([id |-> id, radius |-> 20, parent |-> TRUE])
      [] class = "BoxCollider" ->
            BoxCollider([id |-> id, size |-> <<40, 40, 40>>, parent |-> TRUE])
      [] class = "CapsuleCollider" ->
            CapsuleCollider([id |-> id, radius |-> 20, height |-> 60, parent |-> TRUE])
      [] class = "CylinderCollider" ->
            CylinderCollider([id |-> id, radius |-> 20, height |-> 40, parent |-> TRUE])

Classes == {"SphereCollider", "BoxCollider", "CapsuleCollider", "CylinderCollider"}

PairOffsets == {<<10 * i, 10 * j, 0>> : i \in 0..MaxOffset, j \in 0..MaxOffset}

InitPairs ==
    /\ \E ka \in Classes, kb \in Classes :
          Constructed(<<ShapeOf(ka, <<97>>), ShapeOf(kb, <<98>>)>>)
    /\ \E off \in PairOffsets : parentPos = <<Zero3, off>>
    /\ colliders = <<>>

NextPairs ==
    \/ \E a \in DOMAIN cfg, b \in DOMAIN cfg : CheckCollisionOp(a, b)
    \/ \E a \in DOMAIN cfg, b \in DOMAIN cfg : GetCollisionResponseOp(a, b)

SpecPairs == InitPairs /\ [][NextPairs]_vars

-----------------------------------------------------------------------------
(* SpecBoxSphere: a box of half extents (1, 1, 1) at the origin and a       *)
(* sphere of radius 0.5 or 1 beside it, above it or at one of its corners;  *)
(* checkCollision and getCollisionResponse are called on them in both       *)
(* argument orders.                                                         *)

\* the coordinates of the sphere's centre: 0, 1.3, 1.4 and 1.6
SphereCoordinates == {0, 26, 28, 32}

SpherePlaces == {<<x, y, z>> : x \in SphereCoordinates, y \in SphereCoordinates,
                               z \in SphereCoordinates}

InitBoxSphere ==
    /\ \E r \in {10, 20} :
          Constructed(<<BoxCollider([id |-> <<97>>, size |-> <<40, 40, 40>>, parent |-> TRUE]),
                        SphereCollider([id |-> <<98>>, radius |-> r, parent |-> TRUE])>>)
    /\ \E p \in SpherePlaces : parentPos = <<Zero3, p>>
    /\ colliders = <<>>

SpecBoxSphere == InitBoxSphere /\ [][NextPairs]_vars

-----------------------------------------------------------------------------
(* SpecQuery: a flat box, a sphere and a capsule or a cylinder stacked on   *)
(* the y axis are registered in any order, enabled and disabled, and rays   *)
(* are cast along the axes.                                                 *)

\* the box spans y in [0, 1]; the top of the sphere is at y = 1 as well
QueryPool(third) ==
    <<BoxCollider([id |-> <<97>>, isStatic |-> TRUE, size |-> <<60, 20, 40>>,
                   parent |-> TRUE]),
      SphereCollider([id |-> <<98>>, layer |-> LayerPLAYER, radius |-> 20, parent |-> TRUE]),
      third>>

QueryThirds ==
    {CapsuleCollider([id |-> <<99>>, layer |-> LayerNPC, radius |-> 10, height |-> 40,
                      parent |-> TRUE]),
     CylinderCollider([id |-> <<99>>, layer |-> LayerNPC, radius |-> 10, height |-> 40,
                       parent |-> TRUE])}

InitQuery ==
    /\ \E third \in QueryThirds : Constructed(QueryPool(third))
    /\ parentPos = <<<<0, 10, 0>>, Zero3, <<0, 50, 0>>>>
    /\ colliders = <<>>

RayOrigins == {<<0, 20 * MaxRay, 0>>, <<-20 * MaxRay, 0, 0>>}

RayDirections == {<<0, -2, 0>>, <<1, 0, 0>>}

RayLimits == {<<>>, <<80>>}

RayMasks == {<<>>, <<LayerPLAYER + LayerNPC>>}

\* the centres and radii of the overlap queries: 2 above the origin and 1.5
\* beside it, radius 0.5 and 1.5
OverlapCentres == {<<0, 40, 0>>, <<30, 0, 0>>}

OverlapRadii == {10, 30}

NextQuery ==
    \/ \E o \in DOMAIN cfg : AddCollider(o)
    \/ \E o \in DOMAIN cfg, v \in BOOLEAN : SetEnabled(o, v)
    \/ \E origin \in RayOrigins, direction \in RayDirections,
          maxDistance \in RayLimits, layerMask \in RayMasks :
            Raycast(origin, direction, maxDistance, layerMask)
    \/ \E center \in OverlapCentres, radius \in OverlapRadii, layerMask \in RayMasks :
            OverlapSphere(center, radius, layerMask)

SpecQuery == InitQuery /\ [][NextQuery]_vars

-----------------------------------------------------------------------------
(* SpecToggle: a static trigger cylinder and a static sphere stand at       *)
(* x = 1.5, a dynamic sphere moves between the origin and them. The         *)
(* colliders are registered in any order, enabled and disabled, the dynamic *)
(* sphere's mask is changed, and the scene is swept and queried.            *)

TogglePool ==
    <<CylinderCollider([id |-> <<107>>, isStatic |-> TRUE, isTrigger |-> TRUE,
                        layer |-> LayerTRIGGER, radius |-> 20, height |-> 40,
                        parent |-> TRUE]),
      SphereCollider([id |-> <<97>>, layer |-> LayerPLAYER, radius |-> 20, parent |-> TRUE]),
      SphereCollider([id |-> <<98>>, isStatic |-> TRUE, radius |-> 20, parent |-> TRUE])>>

InitToggle ==
    /\ Constructed(TogglePool)
    /\ parentPos = <<<<30, 0, 0>>, Zero3, <<30, 0, 0>>>>
    /\ colliders = <<>>

\* the collider whose collidesWithMask the game changes, and the values it takes
MaskOwners == {2}

MaskValues == {LayerALL, LayerGROUND}

NextToggle ==
    \/ \E o \in DOMAIN cfg : AddCollider(o)
    \/ \E o \in DOMAIN cfg, v \in BOOLEAN : SetEnabled(o, v)
    \/ \E o \in MaskOwners, mask \in MaskValues : SetCollidesWithMask(o, mask)
    \/ \E pp \in Placements : Update(pp)
    \/ Raycast(<<-100, 0, 0>>, <<1, 0, 0>>, <<>>, <<>>)
    \/ OverlapSphere(<<-10, 0, 0>>, 20, <<>>)

SpecToggle == InitToggle /\ [][NextToggle]_vars

-----------------------------------------------------------------------------
(* SpecRegistry: a dynamic sphere and two static spheres constructed with   *)
(* the same id are registered, looked up, removed, disposed of, swept and   *)
(* queried.                                                                 *)

RegistryPool ==
    <<SphereCollider([id |-> <<97>>, layer |-> LayerPLAYER, radius |-> 20, parent |-> TRUE]),
      SphereCollider([id |-> <<98>>, isStatic |-> TRUE, radius |-> 20, parent |-> TRUE]),
      SphereCollider([id |-> <<98>>, isStatic |-> TRUE, isTrigger |-> TRUE,
                      layer |-> LayerTRIGGER, radius |-> 20, parent |-> TRUE])>>

InitRegistry ==
    /\ Constructed(RegistryPool)
    /\ parentPos = <<Zero3, <<30, 0, 0>>, <<30, 0, 0>>>>
    /\ colliders = <<>>

NextRegistry ==
    \/ \E o \in DOMAIN cfg : AddCollider(o)
    \/ \E id \in PoolIds \cup {UnknownId} : RemoveCollider(id)
    \/ Dispose
    \/ \E id \in PoolIds \cup {UnknownId} : GetCollider(id)
    \/ \E pp \in Placements : Update(pp)
    \/ Raycast(<<-100, 0, 0>>, <<1, 0, 0>>, <<>>, <<>>)
    \/ OverlapSphere(<<-10, 0, 0>>, 20, <<>>)

SpecRegistry == InitRegistry /\ [][NextRegistry]_vars

-----------------------------------------------------------------------------
(* SpecLayers: three overlapping spheres; the first is constructed with     *)
(* collidesWithMask NONE, the second with layer NONE, the third with the    *)
(* defaults. They are registered in any order, swept and tested in pairs.   *)

\* the options objects handed to the three constructors
LayersOptions ==
    <<[id |-> <<97>>, layer |-> LayerPLAYER, collidesWithMask |-> LayerNONE,
       radius |-> 20, parent |-> TRUE],
      [id |-> <<98>>, isStatic |-> TRUE, layer |-> LayerNONE, radius |-> 20, parent |-> TRUE],
      [id |-> <<99>>, isStatic |-> TRUE, radius |-> 20, parent |-> TRUE]>>

InitLayers ==
    /\ Constructed([o \in DOMAIN LayersOptions |-> SphereCollider(LayersOptions[o])])
    /\ parentPos = <<Zero3, <<30, 0, 0>>, <<30, 0, 0>>>>
    /\ colliders = <<>>

NextLayers ==
    \/ \E o \in DOMAIN cfg : AddCollider(o)
    \/ \E pp \in Placements : Update(pp)
    \/ \E a \in DOMAIN cfg, b \in DOMAIN cfg : CheckCollisionOp(a, b)

SpecLayers == InitLayers /\ [][NextLayers]_vars

-----------------------------------------------------------------------------
(* SpecMoves: the scenes of SpecScene, with the game's moves of the owner   *)
(* transforms as steps of their own: update() starts from the owner         *)
(* positions of the state it is called in.                                  *)

NextMoves ==
    \/ \E o \in DOMAIN cfg : AddCollider(o)
    \/ \E o \in DOMAIN cfg, p \in MovePositions : MoveOwner(o, p)
    \/ Update(parentPos)

SpecMoves == InitScene /\ [][NextMoves]_vars

-----------------------------------------------------------------------------
(* Properties: vocabulary *)

Callbacks == {"enter", "stay", "exit"}

\* how many times x got the callback kind about y in a log
CountCb(lg, kind, x, y) ==
    Cardinality({i \in DOMAIN lg : lg[i].cb = kind /\ lg[i].to = x /\ lg[i].other = y})

\* both sides of the pair got the callback kind exactly once, and no other callback
OnlyCb(lg, kind, x, y) ==
    \A k \in Callbacks :
        /\ CountCb(lg, k, x, y) = (IF k = kind THEN 1 ELSE 0)
        /\ CountCb(lg, k, y, x) = (IF k = kind THEN 1 ELSE 0)

\* no callback about the pair on either side
NoCb(lg, x, y) ==
    \A k \in Callbacks : CountCb(lg, k, x, y) = 0 /\ CountCb(lg, k, y, x) = 0

\* the bidirectional layer test on the fields the two colliders were built with
MasksAccept(x, y) ==
    /\ BitAnd(cfg[x].collidesWithMask, cfg[y].layer) # 0
    /\ BitAnd(cfg[y].collidesWithMask, cfg[x].layer) # 0

\* the corrections a log applied
Resolves(lg) == {i \in DOMAIN lg : lg[i].cb = "resolve"}

-----------------------------------------------------------------------------
(* Properties of the callback life cycle *)

\* C1: for two colliders that stay registered, each run of consecutive ticks
\* in which the pair tests true gives both sides exactly one onCollisionEnter
\* on its first tick, one onCollisionStay on each later tick and exactly one
\* onCollisionExit on the first tick after it; no other callback about the
\* pair is fired.
C1_RunCallbacks ==
    [][lastOp'.name = "update" =>
        \A x \in Range(colliders), y \in Range(colliders) :
            x # y =>
                LET now == {x, y} \in HitPairs(log')
                    before == {x, y} \in prevHit
                IN /\ (now /\ ~before) => OnlyCb(log', "enter", x, y)
                   /\ (now /\ before) => OnlyCb(log', "stay", x, y)
                   /\ (~now /\ before) => OnlyCb(log', "exit", x, y)
                   /\ (~now /\ ~before) => NoCb(log', x, y)]_vars

\* C2: over any sequence of addCollider, removeCollider and update, no
\* collider gets onCollisionEnter for a partner twice without having got
\* onCollisionExit for that partner in between.
C2_NoSecondEnter ==
    [][\A i \in DOMAIN log' :
          log'[i].cb = "enter" => <<log'[i].to, log'[i].other>> \notin open]_vars

\* C3: removeCollider(id) of a collider R in active overlaps purges R's id
\* from every partner's activeCollisions before it returns; each remaining
\* partner gets one onCollisionExit for R, no later than the next tick, and
\* R itself gets no onCollisionExit.
C3_RemovePurges ==
    [][/\ (lastOp'.name = "removeCollider" /\ colliders' # colliders) =>
            \A r \in Range(colliders) \ Range(colliders') :
                \A p \in Range(colliders') :
                    cfg[r].id \notin Range(activeCollisions'[p])
       /\ lastOp'.name = "update" =>
            \A pr \in open' : pr[1] \in live' => pr[2] \in live'
       /\ \A i \in DOMAIN log' : log'[i].cb = "exit" => log'[i].to \in live']_vars

\* C4: between operations activeCollisions is symmetric: for registered
\* colliders A and B, B.id is in A.activeCollisions exactly when A.id is in
\* B.activeCollisions.
C4_Symmetric ==
    \A x \in Range(colliders), y \in Range(colliders) :
        x # y => (cfg[y].id \in Range(activeCollisions[x])
                    <=> cfg[x].id \in Range(activeCollisions[y]))

\* C5: from the return of removeCollider(id) until the collider is registered
\* again, no tick invokes a callback of the removed collider, and no other
\* collider gets onCollisionEnter or onCollisionStay with it as the partner.
C5_RemovedIsSilent ==
    \A i \in DOMAIN log :
        /\ log[i].cb \in Callbacks => log[i].to \in live
        /\ log[i].cb \in {"enter", "stay"} => log[i].other \in live

\* a tick ran while a registered collider still had an open overlap with a
\* collider that was removed within reach of it
C5_Witness ==
    /\ lastOp.name = "update"
    /\ \E pr \in open :
          /\ pr[1] \in live
          /\ pr[2] \notin live
          /\ DistanceTo(parentPos[pr[1]], parentPos[pr[2]])
                < cfg[pr[1]].radius + cfg[pr[2]].radius

-----------------------------------------------------------------------------
(* Properties of filtering and resolution *)

\* C6: for a pair that fails the bidirectional layer test, a tick invokes no
\* callback of either collider about the other and applies no correction on
\* account of the pair.
C6_FilteredPairsSilent ==
    \A i \in DOMAIN log :
        log[i].cb \in Callbacks \cup {"resolve"} => MasksAccept(log[i].to, log[i].other)

\* C7: a tick never changes the owner position of a static collider; an
\* overlapping static-static pair moves neither owner.
C7_StaticsStay ==
    [][lastOp'.name = "update" =>
        /\ \A o \in DOMAIN cfg : cfg[o].isStatic => parentPos'[o] = parentPos[o]
        /\ \A i \in Resolves(log') :
              /\ cfg[log'[i].to].isStatic => log'[i].da = Zero3
              /\ cfg[log'[i].other].isStatic => log'[i].db = Zero3]_vars

\* one tick resolved an overlapping static-static pair and pushed a dynamic
\* collider out of a static one
C7_Witness ==
    /\ lastOp.name = "update"
    /\ \E i \in Resolves(log) : cfg[log[i].to].isStatic /\ cfg[log[i].other].isStatic
    /\ \E i \in Resolves(log) :
          /\ cfg[log[i].to].isStatic # cfg[log[i].other].isStatic
          /\ <<log[i].da, log[i].db>> # <<Zero3, Zero3>>

\* C8: for an overlapping pair with a trigger on either side, a tick fires
\* the enter or stay callbacks on both sides, and the exit callbacks on both
\* sides once the overlap has ended, and applies no correction to either owner.
C8_TriggersReport ==
    [][lastOp'.name = "update" =>
        \A x \in Range(colliders), y \in Range(colliders) :
            (x # y /\ (cfg[x].isTrigger \/ cfg[y].isTrigger)) =>
                LET now == {x, y} \in HitPairs(log')
                    before == {x, y} \in prevHit
                IN /\ now => OnlyCb(log', "enter", x, y) \/ OnlyCb(log', "stay", x, y)
                   /\ (before /\ ~now) => OnlyCb(log', "exit", x, y)
                   /\ \A i \in Resolves(log') :
                         {log'[i].to, log'[i].other} = {x, y}
                            => log'[i].da = Zero3 /\ log'[i].db = Zero3]_vars

\* C9: resolveCollision without a trigger, push being direction * overlap:
\* with a static the other side moves by the whole push (b by -push, a by
\* +push), with b static; with neither static a moves by +push / 2 and b by
\* -push / 2. A dynamic sphere of radius 1 at the origin against a static
\* sphere of radius 1 at (1.5, 0, 0) ends at (-0.5, 0, 0), the static one
\* unmoved, in both registration orders.
C9_PushAmounts ==
    /\ \A i \in Resolves(log) :
          LET a == log[i].to
              b == log[i].other
              push == MulDir(log[i].response.direction, log[i].response.overlap)
              half == <<Quot(push[1], 2), Quot(push[2], 2), Quot(push[3], 2)>>
          IN (~cfg[a].isTrigger /\ ~cfg[b].isTrigger /\ cfg[a].hasParent /\ cfg[b].hasParent) =>
                /\ (cfg[a].isStatic /\ ~cfg[b].isStatic) =>
                        log[i].da = Zero3 /\ log[i].db = NegV(push)
                /\ (cfg[b].isStatic /\ ~cfg[a].isStatic) =>
                        log[i].da = push /\ log[i].db = Zero3
                /\ (~cfg[a].isStatic /\ ~cfg[b].isStatic) =>
                        log[i].da = half /\ log[i].db = NegV(half)
    /\ \A x \in Range(colliders), y \in Range(colliders) :
          (/\ lastOp.name = "update"
           /\ Range(colliders) = {x, y}
           /\ cfg[x].kind = "SphereCollider" /\ cfg[y].kind = "SphereCollider"
           /\ cfg[x].radius = 20 /\ cfg[y].radius = 20
           /\ ~cfg[x].isStatic /\ cfg[y].isStatic
           /\ ~cfg[x].isTrigger /\ ~cfg[y].isTrigger
           /\ MasksAccept(x, y)
           /\ worldPosition[x] = Zero3 /\ worldPosition[y] = <<30, 0, 0>>)
          => parentPos[x] = <<-10, 0, 0>> /\ parentPos[y] = <<30, 0, 0>>

\* one tick split a correction between two dynamic colliders and gave a
\* whole correction to a dynamic collider that met a static one
C9_Witness ==
    /\ lastOp.name = "update"
    /\ \E i \in Resolves(log) :
          /\ ~cfg[log[i].to].isStatic /\ ~cfg[log[i].other].isStatic
          /\ ~cfg[log[i].to].isTrigger /\ ~cfg[log[i].other].isTrigger
          /\ log[i].da # Zero3
    /\ \E i \in Resolves(log) :
          /\ cfg[log[i].to].isStatic # cfg[log[i].other].isStatic
          /\ ~cfg[log[i].to].isTrigger /\ ~cfg[log[i].other].isTrigger
          /\ <<log[i].da, log[i].db>> # <<Zero3, Zero3>>

\* the sphere example was played with the static sphere registered first
C9_ExampleReached ==
    /\ lastOp.name = "update"
    /\ Len(colliders) = 2
    /\ cfg[colliders[1]].isStatic /\ ~cfg[colliders[2]].isStatic
    /\ worldPosition[colliders[2]] = Zero3
    /\ worldPosition[colliders[1]] = <<30, 0, 0>>
    /\ parentPos[colliders[2]] = <<-10, 0, 0>>

\* C10: addCollider(c) with c.id already registered is rejected: the registry
\* still maps the id to the collider registered first, its size is unchanged,
\* no activeCollisions changes and the call returns nothing.
C10_DuplicateRejected ==
    [][\A o \in DOMAIN cfg :
          (AddCollider(o) /\ MapHas(cfg, colliders, cfg[o].id)) =>
              /\ MapGet(cfg, colliders', cfg[o].id) = MapGet(cfg, colliders, cfg[o].id)
              /\ Len(colliders') = Len(colliders)
              /\ colliders' = colliders
              /\ activeCollisions' = activeCollisions
              /\ lastOp'.result = "undefined"]_vars

\* the last call was an addCollider that returned nothing while another
\* object holds the registration of its id and overlaps are active
C10_Witness ==
    /\ lastOp.name = "addCollider"
    /\ lastOp.result = "undefined"
    /\ \E o \in DOMAIN cfg : o \notin Range(colliders) /\ MapHas(cfg, colliders, cfg[o].id)
    /\ \E o \in Range(colliders) : activeCollisions[o] # <<>>

-----------------------------------------------------------------------------
(* Properties of the error paths *)

\* C11: removeCollider(id) for an id that is not in the registry is a no-op:
\* the registry, every collider's activeCollisions and every owner position
\* are unchanged, no callback is fired and the call does not fail.
C11_UnknownRemoveNoOp ==
    [][\A id \in PoolIds \cup {UnknownId} :
          (RemoveCollider(id) /\ ~MapHas(cfg, colliders, id)) =>
              /\ colliders' = colliders
              /\ activeCollisions' = activeCollisions
              /\ parentPos' = parentPos
              /\ worldPosition' = worldPosition
              /\ \A i \in DOMAIN log' : log'[i].cb \notin Callbacks
              /\ lastOp'.result = "undefined"]_vars

\* the last call was a removeCollider that left all three ids of the pool
\* registered, so its id was not in the registry, while overlaps are active
C11_Witness ==
    /\ lastOp.name = "removeCollider"
    /\ {cfg[o].id : o \in Range(colliders)} = PoolIds
    /\ \E o \in Range(colliders) : activeCollisions[o] # <<>>

\* C12: a registered collider whose owner transform is absent is skipped by
\* the tick: no pair test reports it as colliding, it gets no onCollisionEnter
\* or onCollisionStay and causes none on another collider, and no correction
\* is computed on its account.
C12_OrphanSkipped ==
    \A i \in DOMAIN log :
        (\/ log[i].cb \in {"enter", "stay", "resolve"}
         \/ (log[i].cb = "check" /\ log[i].hit))
            => cfg[log[i].to].hasParent /\ cfg[log[i].other].hasParent

-----------------------------------------------------------------------------
(* Properties of the pair test *)

\* the classes of the two colliders of the last call
LastClasses == {cfg[lastOp.a].kind, cfg[lastOp.b].kind}

\* the pairs of classes for which a shape class defines a pair algorithm
DedicatedPairs ==
    {{"SphereCollider"}, {"BoxCollider"}, {"CapsuleCollider"},
     {"BoxCollider", "SphereCollider"}, {"CapsuleCollider", "SphereCollider"},
     {"CylinderCollider", "SphereCollider"}, {"CylinderCollider", "BoxCollider"}}

\* with the pair checkCollision tests by taking the capsule for a sphere
SupportedPairs == DedicatedPairs \cup {{"BoxCollider", "CapsuleCollider"}}

\* C13: checkCollision returns false for every pair of classes without a
\* dedicated pair algorithm; a CylinderCollider and a CapsuleCollider are never
\* reported as colliding, in either argument order and at any positions.
C13_UnsupportedNeverCollide ==
    (lastOp.name = "checkCollision" /\ LastClasses \notin SupportedPairs)
        => lastOp.result = FALSE

\* the half extent of a collider's shape along the axis i (1 is x, 2 is y)
Extent(o, i) ==
    CASE cfg[o].kind = "SphereCollider"   -> cfg[o].radius
      [] cfg[o].kind = "BoxCollider"      -> cfg[o].size[i] \div 2
      [] cfg[o].kind = "CapsuleCollider"  -> IF i = 2 THEN cfg[o].height \div 2
                                             ELSE cfg[o].radius
      [] cfg[o].kind = "CylinderCollider" -> IF i = 2 THEN cfg[o].height \div 2
                                             ELSE cfg[o].radius

\* the two shapes exactly touch: their centres differ along one axis only,
\* by the sum of the half extents along it
Touching(x, y) ==
    \E i \in 1..3 :
        /\ \A j \in (1..3) \ {i} : worldPosition[x][j] = worldPosition[y][j]
        /\ Abs(worldPosition[x][i] - worldPosition[y][i]) = Extent(x, i) + Extent(y, i)

\* C14: for every pair of classes with a dedicated pair algorithm, two shapes
\* that exactly touch (surface distance 0) are reported as not colliding.
C14_TouchingIsApart ==
    (/\ lastOp.name = "checkCollision"
     /\ lastOp.a # lastOp.b
     /\ LastClasses \in DedicatedPairs
     /\ Touching(lastOp.a, lastOp.b))
        => lastOp.result = FALSE

\* C15: the pair test is symmetric: for two colliders of supported classes at
\* any positions checkCollision(A, B) = checkCollision(B, A).
C15_PairTestSymmetric ==
    (lastOp.name = "checkCollision" /\ LastClasses \in SupportedPairs)
        => lastOp.result = CheckCollision(cfg, enabled, worldPosition, lastOp.b, lastOp.a)

-----------------------------------------------------------------------------
(* Properties of the response *)

\* C16: for every overlapping pair (a, b) a tick handles, whose centres
\* differ, the response delivered to a has a direction that points from b
\* toward a, and the response delivered to b is the same with direction and
\* normal negated; in every combination of classes and registration order.
C16_DirectionAwayFromOther ==
    \A i \in Resolves(log) :
        LET toA == log[i - 2]
            toB == log[i - 1]
        IN /\ toA.to = log[i].to /\ toB.to = log[i].other
           /\ toA.response = log[i].response
           /\ toB.response.direction = NegDir(toA.response.direction)
           /\ toB.response.normal = NegDir(toA.response.normal)
           /\ toB.response.overlap = toA.response.overlap
           /\ log[i].wa # log[i].wb =>
                 Dot(toA.response.direction.v, SubV(log[i].wa, log[i].wb)) > 0

\* the penetration of two shapes whose centres wa and wb differ along x only:
\* how far the half extents along x reach into each other
Penetration(a, b, wa, wb) == Max2(0, Extent(a, 1) + Extent(b, 1) - Abs(wa[1] - wb[1]))

\* checkCollision(a, b) with the two centres at wa and wb
Retest(a, b, wa, wb) ==
    CheckCollision(cfg, enabled, [worldPosition EXCEPT ![a] = wa, ![b] = wb], a, b)

\* C17: after a tick resolves an overlapping pair without trigger and not
\* both static, the pair re-tested on the corrected positions penetrates
\* strictly less than before; when the penetration is along one coordinate
\* axis, as in every scene here, it is zero and the pair no longer collides.
C17_PushOutConverges ==
    \A i \in Resolves(log) :
        LET a == log[i].to
            b == log[i].other
            wa1 == AddV(log[i].wa, log[i].da)
            wb1 == AddV(log[i].wb, log[i].db)
        IN (/\ ~cfg[a].isTrigger /\ ~cfg[b].isTrigger
            /\ ~(cfg[a].isStatic /\ cfg[b].isStatic)
            /\ cfg[a].hasParent /\ cfg[b].hasParent
            /\ Penetration(a, b, log[i].wa, log[i].wb) > 0)
           => /\ Penetration(a, b, wa1, wb1) < Penetration(a, b, log[i].wa, log[i].wb)
              /\ Penetration(a, b, wa1, wb1) = 0
              /\ ~Retest(a, b, wa1, wb1)

\* the centre of x lies strictly inside the bounds of y
CentreInside(x, y) ==
    \A i \in 1..3 : Abs(worldPosition[x][i] - worldPosition[y][i]) < Extent(y, i)

\* a unit vector along one coordinate axis
AxisUnit(d) ==
    /\ d.len = 1
    /\ \E i \in 1..3 : Abs(d.v[i]) = 1 /\ \A j \in (1..3) \ {i} : d.v[j] = 0

\* C18: the response direction computed for an overlapping pair is never the
\* zero vector; when the centres coincide or one centre lies inside the other
\* shape's bounds it is a unit vector along a single axis.
C18_DirectionNeverZero ==
    (/\ lastOp.name = "getCollisionResponse"
     /\ ~lastOp.result.threw
     /\ CheckCollision(cfg, enabled, worldPosition, lastOp.a, lastOp.b))
        => /\ lastOp.result.response.direction.v # Zero3
           /\ (CentreInside(lastOp.a, lastOp.b) \/ CentreInside(lastOp.b, lastOp.a))
                 => AxisUnit(lastOp.result.response.direction)

-----------------------------------------------------------------------------
(* Properties of the queries *)

\* the position of a registered collider in the registry's insertion order
RegIndex(o) == CHOOSE i \in DOMAIN colliders : colliders[i] = o

\* C19: raycast returns hits only for colliders that are registered, enabled
\* and of a layer the mask accepts, each at a distance <= maxDistance, sorted
\* by non-decreasing distance, equal distances in registration order. A ray
\* from (0, 5, 0) along (0, -1, 0) against a single enabled box spanning y in
\* [0, 1] returns exactly one hit, at distance 4 and point (0, 1, 0).
C19_RaycastHits ==
    lastOp.name = "raycast" =>
        LET hits == lastOp.result
            mask == LayerMaskOf(lastOp.layerMask)
        IN /\ \A i \in DOMAIN hits :
                 /\ hits[i].collider \in Range(colliders)
                 /\ enabled[hits[i].collider]
                 /\ BitAnd(cfg[hits[i].collider].layer, mask) # 0
                 /\ WithinDistance(hits[i].distance, lastOp.maxDistance)
                 /\ hits[i].distance = DistanceTo(lastOp.origin, hits[i].point)
           /\ \A i \in DOMAIN hits, j \in DOMAIN hits :
                 i < j =>
                    /\ hits[i].distance <= hits[j].distance
                    /\ hits[i].distance = hits[j].distance =>
                          RegIndex(hits[i].collider) < RegIndex(hits[j].collider)
           /\ (/\ lastOp.origin = <<0, 100, 0>>
               /\ lastOp.direction = <<0, -1, 0>>
               /\ WithinDistance(80, lastOp.maxDistance)
               /\ Len(colliders) = 1
               /\ cfg[colliders[1]].kind = "BoxCollider"
               /\ enabled[colliders[1]]
               /\ BitAnd(cfg[colliders[1]].layer, mask) # 0
               /\ BoxMin(cfg, worldPosition, colliders[1])[2] = 0
               /\ BoxMax(cfg, worldPosition, colliders[1])[2] = 20)
              => hits = <<[collider |-> colliders[1], point |-> <<0, 20, 0>>,
                           distance |-> 80]>>

\* a raycast with a maxDistance returned two hits at the same distance while
\* a third registered collider was disabled
C19_Witness ==
    /\ lastOp.name = "raycast"
    /\ lastOp.maxDistance # <<>>
    /\ Len(colliders) = 3
    /\ \E o \in Range(colliders) : ~enabled[o]
    /\ \E i \in DOMAIN lastOp.result, j \in DOMAIN lastOp.result :
          /\ i < j
          /\ lastOp.result[i].distance = lastOp.result[j].distance

\* a raycast returned a hit in front of the hit of a collider registered earlier
C19_SortReached ==
    /\ lastOp.name = "raycast"
    /\ \E i \in DOMAIN lastOp.result, j \in DOMAIN lastOp.result :
          /\ lastOp.result[i].distance < lastOp.result[j].distance
          /\ cfg[lastOp.result[i].collider].kind # "CylinderCollider"
          /\ cfg[lastOp.result[j].collider].kind # "CylinderCollider"
          /\ RegIndex(lastOp.result[i].collider) > RegIndex(lastOp.result[j].collider)

\* the ray of the example was cast at the box alone and returned its hit
C19_ExampleReached ==
    /\ lastOp.name = "raycast"
    /\ lastOp.origin = <<0, 100, 0>> /\ lastOp.direction = <<0, -1, 0>>
    /\ Len(colliders) = 1
    /\ cfg[colliders[1]].kind = "BoxCollider"
    /\ Len(lastOp.result) = 1
    /\ lastOp.result[1].distance = 80

\* the registered colliders that overlapSphere must return for the last call
OverlapExpected ==
    {o \in Range(colliders) :
        /\ enabled[o]
        /\ BitAnd(cfg[o].layer, LayerMaskOf(lastOp.layerMask)) # 0
        /\ LengthSq(SubV(lastOp.center, worldPosition[o]))
              <= (lastOp.radius + (IF cfg[o].kind = "BoxCollider" THEN 0 ELSE cfg[o].radius))
                 * (lastOp.radius + (IF cfg[o].kind = "BoxCollider" THEN 0 ELSE cfg[o].radius))}

\* C20: raycast never returns a hit whose collider is a CapsuleCollider or a
\* CylinderCollider.
C20_NoCapsuleOrCylinderHit ==
    lastOp.name = "raycast" =>
        \A i \in DOMAIN lastOp.result :
            cfg[lastOp.result[i].collider].kind \notin {"CapsuleCollider", "CylinderCollider"}

\* C21: overlapSphere(center, radius, layerMask) returns exactly the registered
\* colliders that are enabled, of a layer the mask accepts and whose centre is
\* within radius + collider.radius of center, a box counting as radius 0; in
\* registration order and without duplicates.
C21_OverlapSphereExact ==
    lastOp.name = "overlapSphere" =>
        /\ Range(lastOp.result) = OverlapExpected
        /\ \A i \in DOMAIN lastOp.result, j \in DOMAIN lastOp.result :
              i < j => RegIndex(lastOp.result[i]) < RegIndex(lastOp.result[j])

\* an overlapSphere with a layer mask returned a collider at exactly
\* radius + collider.radius and left out a registered one that is farther,
\* while another registered collider was disabled
C21_Witness ==
    /\ lastOp.name = "overlapSphere"
    /\ Len(colliders) = 3
    /\ \E o \in Range(colliders) : ~enabled[o]
    /\ \E o \in Range(lastOp.result) :
          /\ "radius" \in DOMAIN cfg[o]
          /\ DistanceTo(lastOp.center, worldPosition[o]) = lastOp.radius + cfg[o].radius
    /\ \E o \in Range(colliders) \ Range(lastOp.result) : enabled[o]

-----------------------------------------------------------------------------
(* Properties of the enabled flag and of the registry *)

\* C22: a collider with enabled == false is excluded from all tests: a tick
\* reports no pair with it as colliding, fires no onCollisionEnter or
\* onCollisionStay to it or about it and applies no correction on its account;
\* raycast and overlapSphere never return it.
C22_DisabledExcluded ==
    /\ \A i \in DOMAIN log :
          (\/ log[i].cb \in {"enter", "stay", "resolve"}
           \/ (log[i].cb = "check" /\ log[i].hit))
             => enabled[log[i].to] /\ enabled[log[i].other]
    /\ lastOp.name = "raycast" =>
          \A i \in DOMAIN lastOp.result : enabled[lastOp.result[i].collider]
    /\ lastOp.name = "overlapSphere" =>
          \A i \in DOMAIN lastOp.result : enabled[lastOp.result[i]]

\* a tick left a dynamic sphere in place although it reaches into a
\* registered, disabled sphere that is not a trigger
C22_Witness ==
    /\ lastOp.name = "update"
    /\ lastOp.result = "undefined"
    /\ \E x \in Range(colliders), d \in Range(colliders) :
          /\ enabled[x] /\ ~enabled[d]
          /\ ~cfg[x].isStatic /\ ~cfg[x].isTrigger /\ ~cfg[d].isTrigger
          /\ MasksAccept(x, d)
          /\ DistanceTo(worldPosition[x], worldPosition[d]) < cfg[x].radius + cfg[d].radius

\* a raycast left out a registered, disabled sphere on the ray
C22_RayReached ==
    /\ lastOp.name = "raycast"
    /\ lastOp.result # <<>>
    /\ \E d \in Range(colliders) :
          /\ ~enabled[d]
          /\ cfg[d].kind = "SphereCollider"
          /\ worldPosition[d][2] = 0 /\ worldPosition[d][3] = 0

\* an overlapSphere left out a registered, disabled collider within its reach
C22_OverlapReached ==
    /\ lastOp.name = "overlapSphere"
    /\ lastOp.result # <<>>
    /\ \E d \in Range(colliders) :
          /\ ~enabled[d]
          /\ DistanceTo(lastOp.center, worldPosition[d]) <= lastOp.radius + cfg[d].radius

\* C23: the registry holds exactly the colliders that were added and not
\* since removed: getCollider(id) returns the collider registered under id
\* after a successful addCollider and nothing after removeCollider(id) or
\* dispose(); update(), raycast() and overlapSphere() add and remove no entry.
C23_RegistryExact ==
    [][/\ Range(colliders') = live'
       /\ Len(colliders') = Cardinality(live')
       /\ lastOp'.name = "getCollider" =>
             /\ \A o \in live' : cfg[o].id = lastOp'.id => lastOp'.result = o
             /\ (\A o \in live' : cfg[o].id # lastOp'.id) => lastOp'.result = 0
       /\ (lastOp'.name = "addCollider" /\ lastOp'.result = "collider") =>
             \E o \in Range(colliders') \ Range(colliders) :
                 MapGet(cfg, colliders', cfg[o].id) = o
       /\ lastOp'.name = "removeCollider" =>
             \A o \in Range(colliders) \ Range(colliders') :
                 MapGet(cfg, colliders', cfg[o].id) = 0
       /\ lastOp'.name = "dispose" =>
             \A o \in DOMAIN cfg : MapGet(cfg, colliders', cfg[o].id) = 0
       /\ lastOp'.name \in {"update", "raycast", "overlapSphere", "getCollider"} =>
             colliders' = colliders]_vars

\* getCollider returned the second object constructed with an id, registered
\* after the first one was removed or disposed of, beside another collider
C23_Witness ==
    /\ lastOp.name = "getCollider"
    /\ lastOp.result = 3
    /\ Len(colliders) = 2

\* dispose() emptied the registry while an overlap had been entered and not left
C23_DisposeReached ==
    /\ lastOp.name = "dispose"
    /\ colliders = <<>>
    /\ open # {}

-----------------------------------------------------------------------------
(* Properties of the shape algorithms *)

\* C24: for two sphere colliders A and B the pair test is true exactly when
\* distance(A.centre, B.centre) < A.radius + B.radius.
C24_SphereTest ==
    (/\ lastOp.name = "checkCollision"
     /\ lastOp.a # lastOp.b
     /\ cfg[lastOp.a].kind = "SphereCollider"
     /\ cfg[lastOp.b].kind = "SphereCollider")
        => (lastOp.result
              <=> LengthSq(SubV(worldPosition[lastOp.a], worldPosition[lastOp.b]))
                    < (cfg[lastOp.a].radius + cfg[lastOp.b].radius)
                      * (cfg[lastOp.a].radius + cfg[lastOp.b].radius))

\* checkCollision returned false for two spheres whose centres are exactly
\* the sum of the radii apart
C24_Witness ==
    /\ lastOp.name = "checkCollision"
    /\ lastOp.a # lastOp.b
    /\ cfg[lastOp.a].kind = "SphereCollider"
    /\ cfg[lastOp.b].kind = "SphereCollider"
    /\ lastOp.result = FALSE
    /\ LengthSq(SubV(worldPosition[lastOp.a], worldPosition[lastOp.b]))
          = (cfg[lastOp.a].radius + cfg[lastOp.b].radius)
            * (cfg[lastOp.a].radius + cfg[lastOp.b].radius)

\* checkCollision returned true for two spheres at a distance that is no
\* whole number of model units
C24_InsideReached ==
    /\ lastOp.name = "checkCollision"
    /\ cfg[lastOp.a].kind = "SphereCollider"
    /\ cfg[lastOp.b].kind = "SphereCollider"
    /\ lastOp.result = TRUE
    /\ ~ExactLength(SubV(worldPosition[lastOp.a], worldPosition[lastOp.b]))

\* the collider of the given class among the two of the last call
LastOfClass(class) == IF cfg[lastOp.a].kind = class THEN lastOp.a ELSE lastOp.b

\* C25: the system's pair test of a CylinderCollider and a BoxCollider is the
\* cylinder-box algorithm (the AABB of the cylinder overlaps the box and the
\* box's nearest point to the axis in the horizontal plane is closer than the
\* radius), and that of a CylinderCollider and a SphereCollider is the
\* cylinder's test of the sphere, in either order of the two.
C25_CylinderAlgorithms ==
    lastOp.name = "checkCollision" =>
        /\ LastClasses = {"CylinderCollider", "BoxCollider"} =>
              lastOp.result = CylinderIntersectsBox(cfg, worldPosition,
                                                    LastOfClass("CylinderCollider"),
                                                    LastOfClass("BoxCollider"))
        /\ LastClasses = {"CylinderCollider", "SphereCollider"} =>
              lastOp.result = CylinderIntersectsSphere(cfg, worldPosition,
                                                       LastOfClass("CylinderCollider"),
                                                       LastOfClass("SphereCollider"))

\* the point of the box o closest to p, from the box's centre and size
NearestOnBox(o, p) ==
    [i \in 1..3 |->
        IF p[i] > worldPosition[o][i] + cfg[o].size[i] \div 2
        THEN worldPosition[o][i] + cfg[o].size[i] \div 2
        ELSE IF p[i] < worldPosition[o][i] - cfg[o].size[i] \div 2
        THEN worldPosition[o][i] - cfg[o].size[i] \div 2
        ELSE p[i]]

\* d is the unit vector along delta
UnitAlong(d, delta) ==
    /\ LengthSq(d.v) = d.len * d.len
    /\ \A i \in 1..3 : d.v[i] * Length(delta) = delta[i] * d.len

\* C26: for a box and a sphere whose centre is outside the box, the
\* box-sphere response has overlap = sphere.radius - distance(sphere centre,
\* closest point of the AABB), clamped at 0, and direction = the unit vector
\* from that closest point to the sphere centre. A box of half extents
\* (1, 1, 1) at the origin and a sphere of radius 0.5 at (0, 0, 1.3) give
\* overlap 0.2 and direction (0, 0, 1).
C26_BoxSphereResponse ==
    (/\ lastOp.name = "getCollisionResponse"
     /\ LastClasses = {"BoxCollider", "SphereCollider"})
        => LET box == LastOfClass("BoxCollider")
               sphere == LastOfClass("SphereCollider")
               centre == worldPosition[sphere]
               delta == SubV(centre, <<NearestOnBox(box, centre)[1],
                                       NearestOnBox(box, centre)[2],
                                       NearestOnBox(box, centre)[3]>>)
               response == lastOp.result.response
           IN /\ ~lastOp.result.threw
              /\ delta # Zero3 =>
                    /\ response.overlap
                          = (IF cfg[sphere].radius > Length(delta)
                             THEN cfg[sphere].radius - Length(delta) ELSE 0)
                    /\ UnitAlong(response.direction, delta)
              /\ (/\ worldPosition[box] = Zero3 /\ cfg[box].size = <<40, 40, 40>>
                  /\ cfg[sphere].radius = 10 /\ centre = <<0, 0, 26>>)
                 => /\ response.overlap = 4
                    /\ response.direction = [v |-> <<0, 0, 1>>, len |-> 1]

\* getCollisionResponse(sphere, box) returned the response of the example
C26_Witness ==
    /\ lastOp.name = "getCollisionResponse"
    /\ cfg[lastOp.a].kind = "SphereCollider" /\ cfg[lastOp.b].kind = "BoxCollider"
    /\ cfg[lastOp.a].radius = 10
    /\ worldPosition[lastOp.a] = <<0, 0, 26>>
    /\ lastOp.result.response.overlap = 4

\* a response has overlap 0 and a direction off the coordinate axes
C26_ClampReached ==
    /\ lastOp.name = "getCollisionResponse"
    /\ LastClasses = {"BoxCollider", "SphereCollider"}
    /\ lastOp.result.response.overlap = 0
    /\ lastOp.result.response.direction.len > 1

-----------------------------------------------------------------------------
(* Properties of the order of a tick *)

\* the pairs <<reg[i], reg[j]>> with i < j in the order of the nested loops
RECURSIVE PairsFrom(_, _, _)
PairsFrom(reg, i, j) ==
    IF i >= Len(reg) THEN <<>>
    ELSE IF j > Len(reg) THEN PairsFrom(reg, i + 1, i + 2)
    ELSE <<(<<reg[i], reg[j]>>)>> \o PairsFrom(reg, i, j + 1)

\* the pairs a log tested, in order
RECURSIVE ChecksOf(_)
ChecksOf(lg) ==
    IF lg = <<>> THEN <<>>
    ELSE (IF Head(lg).cb = "check" THEN <<(<<Head(lg).to, Head(lg).other>>)>> ELSE <<>>)
         \o ChecksOf(Tail(lg))

\* the sum of the corrections the first k entries of a log applied to o
RECURSIVE MovedBy(_, _, _)
MovedBy(lg, k, o) ==
    IF k = 0 THEN Zero3
    ELSE AddV(MovedBy(lg, k - 1, o),
              IF lg[k].cb # "resolve" THEN Zero3
              ELSE IF lg[k].to = o THEN lg[k].da
              ELSE IF lg[k].other = o THEN lg[k].db
              ELSE Zero3)

\* the owner position of o when entry k of the log was made, pp being the
\* owner positions at the end of the tick
OwnerAt(pp, lg, k, o) ==
    SubV(pp[o], SubV(MovedBy(lg, Len(lg), o), MovedBy(lg, k, o)))

\* C27: within one update() the unordered pairs are tested in registration
\* order (i < j over the registry's insertion order), each exactly once, and
\* the test of a pair is made on the owner positions as the corrections of
\* the earlier pairs of the same tick left them.
C27_PairOrder ==
    [][lastOp'.name = "update" =>
        /\ ChecksOf(log') = PairsFrom(colliders, 1, 2)
        /\ \A k \in DOMAIN log' :
              log'[k].cb = "check" =>
                 log'[k].hit =
                    CheckCollision(cfg, enabled,
                                   [o \in DOMAIN cfg |->
                                       AddV(OwnerAt(parentPos', log', k, o), cfg[o].offset)],
                                   log'[k].to, log'[k].other)]_vars

\* C28: within one update(), for each overlapping pair the response is
\* computed first, then the enter or stay callbacks fire, the first-registered
\* side before the second, then the positional correction is applied; every
\* onCollisionExit of the tick fires after all pairs have been tested and
\* resolved, and receives the other collider only.
C28_TickOrder ==
    [][lastOp'.name = "update" =>
        /\ \A k \in DOMAIN log' :
              (log'[k].cb = "check" /\ log'[k].hit) =>
                 /\ k + 3 <= Len(log')
                 /\ log'[k + 1].cb \in {"enter", "stay"}
                 /\ log'[k + 1].to = log'[k].to /\ log'[k + 1].other = log'[k].other
                 /\ log'[k + 2].cb = log'[k + 1].cb
                 /\ log'[k + 2].to = log'[k].other /\ log'[k + 2].other = log'[k].to
                 /\ log'[k + 3].cb = "resolve"
                 /\ log'[k + 3].to = log'[k].to /\ log'[k + 3].other = log'[k].other
                 /\ log'[k + 3].response = log'[k + 1].response
                 /\ RegIndex(log'[k].to) < RegIndex(log'[k].other)
        /\ \A k \in DOMAIN log' :
              log'[k].cb \in {"enter", "stay", "resolve"} =>
                  k > 1 /\ log'[k - 1].cb \in {"check", "enter", "stay"}
        /\ \A k \in DOMAIN log', n \in DOMAIN log' :
              (log'[k].cb = "exit" /\ log'[n].cb # "exit") => n < k
        /\ \A k \in DOMAIN log' :
              log'[k].cb = "exit" => DOMAIN log'[k] = {"cb", "to", "other"}]_vars

-----------------------------------------------------------------------------
(* Properties of the callback life cycle across registration and enabling *)

\* C29: over any sequence of addCollider, removeCollider and update, a
\* collider X gets onCollisionStay or onCollisionExit for a partner Y only if
\* X got onCollisionEnter for Y earlier, since X was last registered, with no
\* onCollisionExit for Y in between.
C29_EnterFirst ==
    [][\A i \in DOMAIN log' :
          log'[i].cb \in {"stay", "exit"} =>
              <<log'[i].to, log'[i].other>> \in OpenAfter(entered, SubSeq(log', 1, i - 1))]_vars

\* C30: if a collider that is in an active overlap is disabled, or its mask
\* is changed so that the pair is filtered out, the next update() fires
\* exactly one onCollisionExit on each side of every such pair, the disabled
\* collider included, and removes each id from the other's activeCollisions,
\* even though the shapes still overlap.
C30_FilteredPairExits ==
    [][lastOp'.name = "update" =>
        \A x \in Range(colliders), y \in Range(colliders) :
            (/\ x # y
             /\ cfg[y].id \in Range(activeCollisions[x])
             /\ cfg[x].id \in Range(activeCollisions[y])
             /\ (~enabled[x] \/ ~enabled[y] \/ ~MasksAccept(x, y)))
            => /\ CountCb(log', "exit", x, y) = 1
               /\ CountCb(log', "exit", y, x) = 1
               /\ cfg[y].id \notin Range(activeCollisions'[x])
               /\ cfg[x].id \notin Range(activeCollisions'[y])]_vars

\* C31: the pair key of update() is injective on unordered pairs of
\* registered ids: two different unordered pairs never have the same key,
\* ids containing ':' included; so in an update() every pair whose overlap
\* was open and whose test is not true in this tick gets its
\* onCollisionExit, whatever other pairs still overlap.
C31_PairKeyInjective ==
    [][/\ \A w \in Range(colliders'), x \in Range(colliders'),
             y \in Range(colliders'), z \in Range(colliders') :
              (w # x /\ y # z /\ {cfg[w].id, cfg[x].id} # {cfg[y].id, cfg[z].id})
              => PairKey(cfg[w].id, cfg[x].id) # PairKey(cfg[y].id, cfg[z].id)
       /\ lastOp'.name = "update" =>
              \A x \in Range(colliders), y \in Range(colliders) :
                  (/\ x # y
                   /\ cfg[y].id \in Range(activeCollisions[x])
                   /\ {x, y} \notin HitPairs(log'))
                  => CountCb(log', "exit", x, y) = 1]_vars

\* C32: a collider keeps the layer and the collidesWithMask it was
\* constructed with: one constructed with collidesWithMask NONE never passes
\* canCollideWith with another collider, in either direction, and is in no
\* pair that update() or checkCollision reports; one constructed with layer
\* NONE is never accepted by another collider's mask.
C32_ConstructedLayersKept ==
    \A o \in DOMAIN cfg :
        LET options == LayersOptions[o] IN
        /\ "layer" \in DOMAIN options => cfg[o].layer = options.layer
        /\ "collidesWithMask" \in DOMAIN options
               => cfg[o].collidesWithMask = options.collidesWithMask
        /\ ("collidesWithMask" \in DOMAIN options /\ options.collidesWithMask = LayerNONE)
               => /\ \A x \in DOMAIN cfg \ {o} :
                         /\ ~CanCollideWith(cfg, enabled, o, x)
                         /\ ~CanCollideWith(cfg, enabled, x, o)
                  /\ \A h \in HitPairs(log) : o \notin h
                  /\ (lastOp.name = "checkCollision" /\ lastOp.a # lastOp.b
                      /\ o \in {lastOp.a, lastOp.b}) => ~lastOp.result
        /\ ("layer" \in DOMAIN options /\ options.layer = LayerNONE)
               => \A x \in DOMAIN cfg \ {o} :
                      BitAnd(cfg[x].collidesWithMask, cfg[o].layer) = 0

\* C33: raycast and overlapSphere are pure queries with respect to collision
\* state: a call changes no collider's activeCollisions, no owner-transform
\* position, no enabled, static or trigger flag (nor any other constructed
\* field or the registry), and fires no collision callback.
C33_QueriesArePure ==
    [][lastOp'.name \in {"raycast", "overlapSphere"} =>
          /\ activeCollisions' = activeCollisions
          /\ parentPos' = parentPos
          /\ enabled' = enabled
          /\ cfg' = cfg
          /\ colliders' = colliders
          /\ \A i \in DOMAIN log' : log'[i].cb \notin Callbacks]_vars

\* overlapSphere has just returned a collider that is in an active overlap
\* and whose owner stands where only the correction of an update() puts it
C33_Witness ==
    /\ lastOp.name = "overlapSphere"
    /\ \E o \in Range(lastOp.result) :
          /\ activeCollisions[o] # <<>>
          /\ parentPos[o] \notin MovePositions

\* raycast has just returned a hit on a collider that is in an active overlap
C33_RayReached ==
    /\ lastOp.name = "raycast"
    /\ \E i \in DOMAIN lastOp.result : activeCollisions[lastOp.result[i].collider] # <<>>

\* C34: an update() in which no pair passes the layer filter and the pair
\* test leaves every owner-transform position unchanged and fires no
\* onCollisionEnter and no onCollisionStay; and in any update() the owner
\* position changes only for colliders that are not static and are in a pair
\* that overlaps in this tick and has no trigger on either side.
C34_TickFrame ==
    [][lastOp'.name = "update" =>
          /\ HitPairs(log') = {}
                 => /\ parentPos' = parentPos
                    /\ \A i \in DOMAIN log' : log'[i].cb \notin {"enter", "stay"}
          /\ \A o \in DOMAIN cfg :
                 parentPos'[o] # parentPos[o]
                 => /\ ~cfg[o].isStatic
                    /\ \E h \in HitPairs(log') :
                          o \in h /\ \A x \in h : ~cfg[x].isTrigger]_vars

\* a tick has just tested the pairs of three registered colliders, found no
\* overlap, and fired the onCollisionExit of an overlap that ended
C34_Witness ==
    /\ lastOp.name = "update"
    /\ Len(colliders) = 3
    /\ HitPairs(log) = {}
    /\ \E i \in DOMAIN log : log[i].cb = "check"
    /\ \E i \in DOMAIN log : log[i].cb = "exit"

\* a tick has just found a trigger pair and a trigger-free pair overlapping
\* and moved an owner
C34_PushReached ==
    /\ lastOp.name = "update"
    /\ \E h \in HitPairs(log) : \E x \in h : cfg[x].isTrigger
    /\ \E i \in Resolves(log) : <<log[i].da, log[i].db>> # <<Zero3, Zero3>>

====
